---- MODULE Spec2Model ----
(***************************************************************************)
(* Verification model of the heuristic static-analysis core of the        *)
(* repository: ScoreEngine, the NexaTest RuleEngine and its rules, the     *)
(* AnalysisEngine with its analyzers, and the AnalysisService batch step;  *)
(* and of the FolderTreeManager over its local file-system adapter.        *)
(*                                                                         *)
(* The module holds several specifications over one set of variables; a   *)
(* specification leaves the variables of the other components untouched.  *)
(*   SpecScore    ScoreEngine._calculate_file_metrics, issue by issue      *)
(*   SpecProject  ScoreEngine.calculate_project_score over report lists    *)
(*   SpecEngine   RuleEngine.analyze, call after call on one engine        *)
(*   SpecRule     configure and evaluate called on rule instances          *)
(*   SpecBatch    AnalysisEngine.analyze_project, AnalysisService          *)
(*                .analyze_files over lists of paths                       *)
(*   SpecConc     two workers calling one engine at the same time          *)
(*   SpecAnalyzer the performance, quality and security analyzers on texts *)
(*   SpecRuleText the configurable rules on texts built around a threshold *)
(*   SpecTree     FolderTreeManager.create_folder_tree and                 *)
(*                cleanup_folder_tree on one base directory                *)
(***************************************************************************)
EXTENDS Integers, Sequences, FiniteSets, TLC

VARIABLES
    \* ScoreEngine._calculate_file_metrics / calculate_file_score
    score_pc,          \* "idle" | "loop" (inside the for loop) | "done"
    score,             \* the local `score` of _calculate_file_metrics
    n_issues,          \* how many issues of the list the loop has consumed
    file_score,        \* the value calculate_file_score returned (100 until it returns)
    \* ScoreEngine.calculate_project_score
    analysis_results,  \* the argument: a sequence of report dicts
    project_result,    \* the returned dict, [called |-> FALSE] before the call
    \* RuleEngine and the rule instances
    engine_rules,      \* RuleEngine.rules: the ids of the rule instances, in order
    engine_config,     \* RuleEngine.config
    rule_attr,         \* what self.<THRESHOLD> reads on each configurable rule instance
    calls,             \* the analyze calls made so far: text, outcome, returned findings
    \* a rule or an analyzer instance used directly
    last_call,         \* the most recent direct call on a rule or an analyzer instance
    \* AnalysisEngine.analyze_project and AnalysisService.analyze_files
    env,               \* what the service found importable, and the rule config file
    batch,             \* the most recent batch call: operation, paths, returned reports
    \* calls made concurrently on one engine
    conc_pc,           \* where each worker is in its call: phase, input, rule index, value read
    conc_findings,     \* the list `findings` (or `issues`) of the call of each worker
    conc_result,       \* what the call that returned last returned
    \* FolderTreeManager and the storage behind its adapter
    storage,           \* the directories, the files and the modes that exist
    tree_call          \* the most recent call on the manager, with its adapter calls

scoreVars   == <<score_pc, score, n_issues, file_score>>
projectVars == <<analysis_results, project_result>>
engineVars  == <<engine_rules, engine_config, rule_attr, calls>>
ruleVars    == <<last_call>>
batchVars   == <<env, batch>>
concVars    == <<conc_pc, conc_findings, conc_result>>
treeVars    == <<storage, tree_call>>
vars        == <<scoreVars, projectVars, engineVars, ruleVars, batchVars, concVars, treeVars>>

\* what the operations of one component leave alone
exceptScore   == <<projectVars, engineVars, ruleVars, batchVars, concVars, treeVars>>
exceptProject == <<scoreVars, engineVars, ruleVars, batchVars, concVars, treeVars>>
exceptEngine  == <<scoreVars, projectVars, ruleVars, batchVars, concVars, treeVars>>
exceptRule    == <<scoreVars, projectVars, engine_rules, engine_config, calls, batchVars, concVars, treeVars>>
exceptBatch   == <<scoreVars, projectVars, engineVars, ruleVars, concVars, treeVars>>
exceptConc    == <<scoreVars, projectVars, engine_rules, engine_config, calls, ruleVars, batchVars, treeVars>>
exceptTree    == <<scoreVars, projectVars, engineVars, ruleVars, batchVars, concVars>>

(***************************************************************************)
(* Bounds of the model                                                     *)
(***************************************************************************)
MaxIssues  == 11   \* longest issue list fed to _calculate_file_metrics
MaxReports == 3    \* longest report list fed to calculate_project_score
MaxCalls   == 3    \* analyze calls made on one RuleEngine
MaxPaths   == 3    \* longest path list fed to analyze_project and analyze_files

(***************************************************************************)
(* Small helpers                                                           *)
(***************************************************************************)
Max(a, b) == IF a >= b THEN a ELSE b

\* Python int(a / b) for b > 0: truncation toward zero.
TruncDiv(a, b) == IF a >= 0 THEN a \div b ELSE -((-a) \div b)

RECURSIVE Repeat(_, _)
Repeat(x, n) == IF n = 0 THEN <<>> ELSE <<x>> \o Repeat(x, n - 1)

(***************************************************************************)
(* Config.py: scoring configuration                                        *)
(***************************************************************************)
INITIAL_FILE_SCORE == 100

ISSUE_PENALTIES ==
    [t \in {"quality", "security", "performance"} |->
        CASE t = "quality"     -> [low |-> -1, medium |-> -3, high |-> -5]
          [] t = "security"    -> [low |-> -2, medium |-> -5, high |-> -10]
          [] t = "performance" -> [low |-> -2, medium |-> -4, high |-> -4]]

(***************************************************************************)
(* Issue dicts as ScoreEngine reads them.  Absent marks a missing key;     *)
(* the other values are the strings an issue may carry, known or not.      *)
(***************************************************************************)
Absent == "<absent>"

IssueTypeValues == {"quality", "security", "performance", "Security", "style", Absent}
SeverityValues  == {"low", "medium", "high", "HIGH", "info", Absent}

IssueDicts == [type : IssueTypeValues, severity : SeverityValues]

\* str.lower() on the strings of the model
Lower(s) ==
    CASE s = "Security" -> "security"
      [] s = "HIGH"     -> "high"
      [] s = ".PY"      -> ".py"
      [] OTHER          -> s

\* issue.get("type", "quality").lower()
IssueType(issue) == Lower(IF issue.type = Absent THEN "quality" ELSE issue.type)

\* issue.get("severity", "medium").lower()
IssueSeverity(issue) == Lower(IF issue.severity = Absent THEN "medium" ELSE issue.severity)

\* the penalty lookup of one loop iteration
Penalty(issue) ==
    LET t == IssueType(issue)
        s == IssueSeverity(issue)
    IN  IF t \in DOMAIN ISSUE_PENALTIES
        THEN IF s \in DOMAIN ISSUE_PENALTIES[t] THEN ISSUE_PENALTIES[t][s] ELSE 0
        ELSE 0

\* `return max(0, score), breakdown`
NoFloor(s) == s
FloorAtZero(s) == Max(0, s)

(***************************************************************************)
(* SpecScore: one call of calculate_file_score, the loop taken one issue   *)
(* at a time; the issue of each iteration is any issue dict.               *)
(***************************************************************************)
ScoreInit ==
    /\ score_pc = "idle"
    /\ score = INITIAL_FILE_SCORE
    /\ n_issues = 0
    /\ file_score = INITIAL_FILE_SCORE

\* calculate_file_score is entered: score = Config.INITIAL_FILE_SCORE
CalcFileScoreBegin ==
    /\ score_pc \in {"idle", "done"}
    /\ score_pc' = "loop"
    /\ score' = INITIAL_FILE_SCORE
    /\ n_issues' = 0
    /\ file_score' = INITIAL_FILE_SCORE
    /\ UNCHANGED exceptScore

\* one iteration of `for issue in issues`
CalcFileScoreIssue ==
    /\ score_pc = "loop"
    /\ n_issues < MaxIssues
    /\ \E issue \in IssueDicts :
          score' = score + Penalty(issue)
    /\ n_issues' = n_issues + 1
    /\ UNCHANGED <<score_pc, file_score, exceptScore>>

\* the list is exhausted: return max(0, score)
CalcFileScoreReturn ==
    /\ score_pc = "loop"
    /\ score_pc' = "done"
    /\ file_score' = FloorAtZero(score)
    /\ UNCHANGED <<score, n_issues, exceptScore>>

ScoreNext ==
    \/ CalcFileScoreBegin
    \/ CalcFileScoreIssue
    \/ CalcFileScoreReturn

(***************************************************************************)
(* C1: for every list of issues, calculate_file_score with the default     *)
(* penalty table returns an integer in 0..100: the running score starts at *)
(* 100, never rises (every penalty is <= 0), and the result is the running *)
(* score floored at 0.                                                     *)
(***************************************************************************)
C1_FileScoreInRange ==
    /\ score_pc = "loop" => score <= INITIAL_FILE_SCORE
    /\ score_pc = "done" =>
          /\ file_score \in 0..100
          /\ score >= 0 => file_score = score
          /\ score < 0 => file_score = 0

\* a list whose penalties sum below -100: the floor has acted
C1_Witness == score_pc = "done" /\ score < 0 /\ file_score = 0 /\ n_issues = MaxIssues

(***************************************************************************)
(* SpecProject: calculate_project_score over report lists.  A report is a  *)
(* dict that holds an "issues" list or lacks the key; the issue lists are  *)
(* drawn from ReportSamples.                                               *)
(***************************************************************************)
Iss(t, s) == [type |-> t, severity |-> s]

IssueListSamples ==
    { <<>>,
      <<Iss("quality", "low")>>,
      <<Iss("style", "high"), Iss("performance", "medium")>>,
      <<Iss("Security", "HIGH"), Iss(Absent, Absent), Iss("quality", "info")>>,
      <<Iss("other", "low"), Iss("style", "low"), Iss("Security", "low")>>,
      Repeat(Iss("security", "high"), 11),
      Repeat(Iss("quality", "high"), 19) }

ReportSamples ==
    {[has_issues |-> TRUE, issues |-> l] : l \in IssueListSamples}
        \cup {[has_issues |-> FALSE, issues |-> <<>>]}

\* result.get("issues", [])
ResultIssues(result) == IF result.has_issues THEN result.issues ELSE <<>>

\* _calculate_file_metrics, the score component: the whole loop, then the floor
RECURSIVE PenaltySum(_)
PenaltySum(issues) ==
    IF issues = <<>> THEN 0 ELSE Penalty(Head(issues)) + PenaltySum(Tail(issues))

FileMetricsScore(issues) == FloorAtZero(INITIAL_FILE_SCORE + PenaltySum(issues))

\* a breakdown dict as the code creates it
NoBreakdown == [k \in {"quality", "security", "performance"} |-> 0]

\* d[key] += v, after d.setdefault(key, 0)
AddTo(d, key, v) ==
    [k \in DOMAIN d \cup {key} |->
        (IF k \in DOMAIN d THEN d[k] ELSE 0) + (IF k = key THEN v ELSE 0)]

\* the breakdown update that leaves an unknown type out
CountKnownOnly(breakdown, issue_type) ==
    IF issue_type \in DOMAIN breakdown THEN AddTo(breakdown, issue_type, 1) ELSE breakdown

\* the breakdown update of one loop iteration of _calculate_file_metrics
CountIssue(breakdown, issue_type) ==
    IF issue_type \in DOMAIN breakdown
    THEN AddTo(breakdown, issue_type, 1)
    ELSE AddTo(breakdown, "other", 1)

\* _calculate_file_metrics, the breakdown component
RECURSIVE FileBreakdown(_)
FileBreakdown(issues) ==
    IF issues = <<>> THEN NoBreakdown
    ELSE CountIssue(FileBreakdown(SubSeq(issues, 1, Len(issues) - 1)),
                    IssueType(issues[Len(issues)]))

\* the keys a breakdown can hold, in the order the dict gets them
BreakdownKeys == <<"quality", "security", "performance", "other">>

\* `for k, v in file_breakdown.items()`, from key number n on
RECURSIVE AggregateBreakdown(_, _, _)
AggregateBreakdown(project_breakdown, file_breakdown, n) ==
    IF n > Len(BreakdownKeys) THEN project_breakdown
    ELSE LET k == BreakdownKeys[n]
         IN  IF k \notin DOMAIN file_breakdown
             THEN AggregateBreakdown(project_breakdown, file_breakdown, n + 1)
             ELSE AggregateBreakdown(
                      AddTo(project_breakdown,
                            IF k \in DOMAIN project_breakdown THEN k ELSE "other",
                            file_breakdown[k]),
                      file_breakdown, n + 1)

\* the accumulation loop of calculate_project_score:
\* <<total_score, total_issues, project_breakdown>>
RECURSIVE ProjectTotals(_)
ProjectTotals(results) ==
    IF results = <<>> THEN <<0, 0, NoBreakdown>>
    ELSE LET rest   == ProjectTotals(SubSeq(results, 1, Len(results) - 1))
             issues == ResultIssues(results[Len(results)])
         IN  <<rest[1] + FileMetricsScore(issues), rest[2] + Len(issues),
               AggregateBreakdown(rest[3], FileBreakdown(issues), 1)>>

\* avg_score = int(total_score / total_files)
RoundedAverage(total_score, total_files) == (2 * total_score + total_files) \div (2 * total_files)
AverageScore(total_score, total_files) == TruncDiv(total_score, total_files)

ProjectScore(results) ==
    LET total_files == Len(results)
    IN  IF total_files = 0
        THEN [called |-> TRUE,
              overall_score |-> INITIAL_FILE_SCORE,
              average_file_score |-> INITIAL_FILE_SCORE,
              total_issues |-> 0,
              issue_breakdown |-> NoBreakdown]
        ELSE LET totals == ProjectTotals(results)
                 avg    == AverageScore(totals[1], total_files)
             IN  [called |-> TRUE,
                  overall_score |-> avg,
                  average_file_score |-> avg,
                  total_issues |-> totals[2],
                  issue_breakdown |-> totals[3]]

ProjectInit ==
    /\ analysis_results = <<>>
    /\ project_result = [called |-> FALSE]

\* the caller collects one more report before scoring
AddReport ==
    /\ Len(analysis_results) < MaxReports
    /\ \E r \in ReportSamples :
          analysis_results' = Append(analysis_results, r)
    /\ project_result' = [called |-> FALSE]
    /\ UNCHANGED exceptProject

CalculateProjectScore ==
    /\ ~project_result.called
    /\ project_result' = ProjectScore(analysis_results)
    /\ UNCHANGED <<analysis_results, exceptProject>>

ProjectNext ==
    \/ AddReport
    \/ CalculateProjectScore

\* the per-file scores and issue counts of a report list, taken file by file
FileScores(results) == [i \in 1..Len(results) |-> FileMetricsScore(ResultIssues(results[i]))]
IssueCounts(results) == [i \in 1..Len(results) |-> Len(ResultIssues(results[i]))]

RECURSIVE SumSeq(_)
SumSeq(q) == IF q = <<>> THEN 0 ELSE Head(q) + SumSeq(Tail(q))

(***************************************************************************)
(* C2: calculate_project_score returns overall_score = 100 and             *)
(* total_issues = 0 for an empty report list; for a non-empty list the     *)
(* overall_score is the mean of the per-file scores truncated to an        *)
(* integer (hence in 0..100) and total_issues is the number of issues of   *)
(* all reports.                                                            *)
(***************************************************************************)
C2_ProjectScore ==
    project_result.called =>
        LET n   == Len(analysis_results)
            sum == SumSeq(FileScores(analysis_results))
            o   == project_result.overall_score
        IN  /\ n = 0 => o = 100 /\ project_result.total_issues = 0
            /\ n > 0 =>
                  /\ o \in 0..100
                  /\ o * n <= sum
                  /\ sum < (o + 1) * n
                  /\ project_result.total_issues = SumSeq(IssueCounts(analysis_results))

\* a non-empty list whose mean is not an integer, with a floored file in it
C2_Witness ==
    /\ project_result.called
    /\ Len(analysis_results) = 3
    /\ SumSeq(FileScores(analysis_results)) % 3 = 2
    /\ \E i \in 1..3 : FileScores(analysis_results)[i] = 0
    /\ project_result.total_issues > 11

(***************************************************************************)
(* Source text.  A text is the sequence code.splitlines() gives; a line is *)
(* its indentation (the count of leading blanks), the sequence of lexemes  *)
(* of its stripped text and the count of blanks after it.  A keyword       *)
(* lexeme carries its trailing blank ("def ", "for "), so it never ends a  *)
(* stripped line.  The string operations of the code are the sequence      *)
(* operations below.                                                       *)
(***************************************************************************)
\* a line with no blanks after its text; trail counts trailing blanks
Ln(ind, toks) == [ind |-> ind, toks |-> toks, trail |-> 0]

\* stripped.startswith(tok)
StartsWith(toks, tok) == toks /= <<>> /\ toks[1] = tok

\* the first index of tok in q, 0 when q does not hold it (str.find + 1)
FirstIndex(q, tok) ==
    IF \E i \in 1..Len(q) : q[i] = tok
    THEN CHOOSE i \in 1..Len(q) : q[i] = tok /\ \A j \in 1..(i - 1) : q[j] /= tok
    ELSE 0

\* q.split(tok)[0]
UpTo(q, tok) ==
    IF FirstIndex(q, tok) = 0 THEN q ELSE SubSeq(q, 1, FirstIndex(q, tok) - 1)

\* what follows the first tok of q; only used when q holds tok
AfterFirst(q, tok) == SubSeq(q, FirstIndex(q, tok) + 1, Len(q))

\* q.count(tok)
Count(q, tok) == Cardinality({i \in 1..Len(q) : q[i] = tok})

\* stripped.split("def ")[1].split("(")[0]
FuncName(toks) == UpTo(Tail(toks), "(")

\* re.match(r"^[a-z_][a-z0-9_]*$", name) on the lexemes of a name
SnakeLexemes == {"f", "g", "a", "b", "x", "_h"}
IsSnakeCase(name) == name /= <<>> /\ \A i \in 1..Len(name) : name[i] \in SnakeLexemes

(***************************************************************************)
(* Issues of the rule engine: {rule, message, line, severity}.  A message  *)
(* is its fixed text with the name and the number formatted into it;       *)
(* NoLine stands for None.                                                 *)
(***************************************************************************)
NoLine == 0

Msg(text, name, num) == [text |-> text, name |-> name, num |-> num]

Finding(rule, message, line, severity) ==
    [rule |-> rule, message |-> message, line |-> line, severity |-> severity]

\* what evaluate gives: the returned issues, or the exception it raised
Returned(issues) == [raised |-> FALSE, err |-> "", issues |-> issues]
Raised(err)      == [raised |-> TRUE, err |-> err, issues |-> <<>>]

(***************************************************************************)
(* Threshold values.  A threshold read from a config is a number or a      *)
(* value of another type (a JSON string, null, a list), which `>` and `>=` *)
(* refuse with a TypeError.                                                *)
(***************************************************************************)
Num(v)   == [tag |-> "int", v |-> v]
NotANum  == [tag |-> "str", v |-> 0]

\* engine/rule_base.py: Rule.get_lines gives (i + 1, line, line.strip())
GetLines(code) == [i \in 1..Len(code) |-> [line_no |-> i, line |-> code[i], stripped |-> code[i].toks]]

(***************************************************************************)
(* rules/naming_rule.py                                                    *)
(***************************************************************************)
RECURSIVE NamingScan(_, _, _)
NamingScan(code, i, issues) ==
    IF i > Len(code) THEN Returned(issues)
    ELSE LET stripped == code[i].toks
         IN  IF StartsWith(stripped, "def ") /\ ~IsSnakeCase(FuncName(stripped))
             THEN NamingScan(code, i + 1, Append(issues,
                     Finding("NAMING_CONVENTION",
                             Msg("is not snake_case", FuncName(stripped), 0), i, "warning")))
             ELSE NamingScan(code, i + 1, issues)

NamingEvaluate(code) == NamingScan(code, 1, <<>>)

(***************************************************************************)
(* rules/function_length_rule.py                                           *)
(***************************************************************************)
FunctionLengthStart ==
    [in_func |-> FALSE, func_start |-> 0, func_indent |-> 0, func_name |-> <<>>,
     count |-> 0, issues |-> <<>>, raised |-> FALSE]

\* one iteration of the for loop over the lines
FunctionLengthStep(st, i, line, MAX_LINES) ==
    LET stripped == line.toks
        indent   == line.ind
        s1 == IF StartsWith(stripped, "def ")
              THEN [st EXCEPT !.in_func = TRUE, !.func_start = i, !.func_indent = indent,
                              !.func_name = FuncName(stripped), !.count = 0]
              ELSE IF st.in_func /\ indent <= st.func_indent
                   THEN [st EXCEPT !.in_func = FALSE]
                   ELSE st
    IN  IF ~s1.in_func THEN s1
        ELSE LET s2 == [s1 EXCEPT !.count = s1.count + 1]
             IN  IF MAX_LINES.tag /= "int" THEN [s2 EXCEPT !.raised = TRUE]
                 ELSE IF s2.count > MAX_LINES.v
                      THEN [s2 EXCEPT !.in_func = FALSE,
                                      !.issues = Append(s2.issues,
                                          Finding("FUNCTION_LENGTH",
                                                  Msg("exceeds lines", s2.func_name, MAX_LINES.v),
                                                  s2.func_start, "error"))]
                      ELSE s2

RECURSIVE FunctionLengthScan(_, _, _, _)
FunctionLengthScan(code, i, st, MAX_LINES) ==
    IF st.raised THEN Raised("TypeError")
    ELSE IF i > Len(code) THEN Returned(st.issues)
    ELSE FunctionLengthScan(code, i + 1, FunctionLengthStep(st, i, code[i], MAX_LINES), MAX_LINES)

FunctionLengthEvaluate(code, MAX_LINES) == FunctionLengthScan(code, 1, FunctionLengthStart, MAX_LINES)

(***************************************************************************)
(* rules/parameter_count_rule.py                                           *)
(***************************************************************************)
\* signature = stripped.split("def ")[1].split(")")[0]
Signature(stripped) == UpTo(Tail(stripped), ")")

\* params = signature.split("(")[1]: the piece between the first "(" and the next
Params(signature) == UpTo(AfterFirst(signature, "("), "(")

RECURSIVE ParameterCountScan(_, _, _, _)
ParameterCountScan(code, i, issues, MAX_PARAMS) ==
    IF i > Len(code) THEN Returned(issues)
    ELSE LET stripped == code[i].toks
         IN  IF ~StartsWith(stripped, "def ")
             THEN ParameterCountScan(code, i + 1, issues, MAX_PARAMS)
             ELSE LET signature == Signature(stripped)
                  IN  IF FirstIndex(signature, "(") = 0 THEN Raised("IndexError")
                      ELSE LET params == Params(signature)
                               count  == Count(params, ",") + 1
                           IN  IF params = <<>>
                               THEN ParameterCountScan(code, i + 1, issues, MAX_PARAMS)
                               ELSE IF MAX_PARAMS.tag /= "int" THEN Raised("TypeError")
                               ELSE IF count > MAX_PARAMS.v
                                    THEN ParameterCountScan(code, i + 1, Append(issues,
                                            Finding("PARAMETER_COUNT",
                                                    Msg("has parameters", UpTo(signature, "("), count),
                                                    i, "warning")), MAX_PARAMS)
                                    ELSE ParameterCountScan(code, i + 1, issues, MAX_PARAMS)

ParameterCountEvaluate(code, MAX_PARAMS) == ParameterCountScan(code, 1, <<>>, MAX_PARAMS)

(***************************************************************************)
(* rules/complexity_rule.py                                                *)
(***************************************************************************)
branch_keywords == <<"if ", "for ", "while ", "elif ", "except ", "case ">>

ComplexityStart ==
    [in_func |-> FALSE, func_name |-> <<>>, func_line |-> 0, branch_count |-> 0,
     issues |-> <<>>, raised |-> FALSE]

ComplexityFinding(st) ==
    Finding("COMPLEXITY", Msg("has high branching complexity", st.func_name, st.branch_count),
            st.func_line, "warning")

\* `if in_func and branch_count > self.MAX_BRANCHES: issues.append(...)`
ComplexityFlushAtLeast(st, MAX_BRANCHES) ==
    IF ~st.in_func THEN st
    ELSE IF MAX_BRANCHES.tag /= "int" THEN [st EXCEPT !.raised = TRUE]
    ELSE IF st.branch_count >= MAX_BRANCHES.v
         THEN [st EXCEPT !.issues = Append(st.issues, ComplexityFinding(st))]
         ELSE st

ComplexityFlush(st, MAX_BRANCHES) ==
    IF ~st.in_func THEN st
    ELSE IF MAX_BRANCHES.tag /= "int" THEN [st EXCEPT !.raised = TRUE]
    ELSE IF st.branch_count > MAX_BRANCHES.v
         THEN [st EXCEPT !.issues = Append(st.issues, ComplexityFinding(st))]
         ELSE st

\* one iteration of the for loop over get_lines(code)
ComplexityStep(st, rec, MAX_BRANCHES) ==
    IF StartsWith(rec.stripped, "def ")
    THEN LET s1 == ComplexityFlush(st, MAX_BRANCHES)
         IN  IF s1.raised THEN s1
             ELSE [s1 EXCEPT !.in_func = TRUE, !.func_name = FuncName(rec.stripped),
                             !.func_line = rec.line_no, !.branch_count = 0]
    ELSE IF st.in_func
         THEN [st EXCEPT !.branch_count = st.branch_count +
                  Cardinality({k \in 1..Len(branch_keywords) : StartsWith(rec.stripped, branch_keywords[k])})]
         ELSE st

RECURSIVE ComplexityScan(_, _, _, _)
ComplexityScan(recs, i, st, MAX_BRANCHES) ==
    IF st.raised THEN Raised("TypeError")
    ELSE IF i > Len(recs)
         THEN LET last == ComplexityFlush(st, MAX_BRANCHES)
              IN  IF last.raised THEN Raised("TypeError") ELSE Returned(last.issues)
    ELSE ComplexityScan(recs, i + 1, ComplexityStep(st, recs[i], MAX_BRANCHES), MAX_BRANCHES)

ComplexityEvaluate(code, MAX_BRANCHES) ==
    ComplexityScan(GetLines(code), 1, ComplexityStart, MAX_BRANCHES)

(***************************************************************************)
(* rules/docstring_rule.py                                                 *)
(***************************************************************************)
TQD == "\"\"\""
TQS == "'''"

\* the inner while: the index of the next line that is not blank, from j on
RECURSIVE NextNonEmpty(_, _)
NextNonEmpty(code, j) ==
    IF j <= Len(code) /\ code[j].toks = <<>> THEN NextNonEmpty(code, j + 1) ELSE j

RECURSIVE DocstringScan(_, _, _)
DocstringScan(code, i, issues) ==
    IF i > Len(code) THEN Returned(issues)
    ELSE LET stripped == code[i].toks
         IN  IF StartsWith(stripped, "def ")
             THEN LET j == NextNonEmpty(code, i + 1)
                      missing == \/ j > Len(code)
                                 \/ ~(StartsWith(code[j].toks, TQD) \/ StartsWith(code[j].toks, TQS))
                  IN  DocstringScan(code, j,
                          IF missing
                          THEN Append(issues, Finding("DOCSTRING_MISSING",
                                   Msg("is missing a docstring", FuncName(stripped), 0), i, "info"))
                          ELSE issues)
             ELSE DocstringScan(code, i + 1, issues)

DocstringEvaluate(code) == DocstringScan(code, 1, <<>>)

(***************************************************************************)
(* rules/duplicate_code_rule.py                                            *)
(***************************************************************************)
\* seen[stripped].append(line_no) on the insertion-ordered dict `seen`,
\* kept as the sequence of its items
SeenAppend(seen, stripped, line_no) ==
    IF \E k \in 1..Len(seen) : seen[k].text = stripped
    THEN [k \in 1..Len(seen) |->
             IF seen[k].text = stripped
             THEN [seen[k] EXCEPT !.occurrences = Append(seen[k].occurrences, line_no)]
             ELSE seen[k]]
    ELSE Append(seen, [text |-> stripped, occurrences |-> <<line_no>>])

RECURSIVE DuplicateSeen(_, _, _)
DuplicateSeen(recs, i, seen) ==
    IF i > Len(recs) THEN seen
    ELSE LET stripped == recs[i].stripped
         IN  DuplicateSeen(recs, i + 1,
                 IF stripped /= <<>> /\ ~StartsWith(stripped, "#")
                 THEN SeenAppend(seen, stripped, recs[i].line_no)
                 ELSE seen)

RECURSIVE DuplicateReportAbove(_, _, _, _)
DuplicateReportAbove(seen, k, issues, MIN_DUPLICATES) ==
    IF k > Len(seen) THEN Returned(issues)
    ELSE IF MIN_DUPLICATES.tag /= "int" THEN Raised("TypeError")
    ELSE LET occurrences == seen[k].occurrences
         IN  DuplicateReportAbove(seen, k + 1,
                 IF Len(occurrences) > MIN_DUPLICATES.v
                 THEN Append(issues, Finding("DUPLICATE_CODE",
                          Msg("Duplicate line appears", <<>>, Len(occurrences)),
                          occurrences[1], "warning"))
                 ELSE issues,
                 MIN_DUPLICATES)

RECURSIVE DuplicateReport(_, _, _, _)
DuplicateReport(seen, k, issues, MIN_DUPLICATES) ==
    IF k > Len(seen) THEN Returned(issues)
    ELSE IF MIN_DUPLICATES.tag /= "int" THEN Raised("TypeError")
    ELSE LET occurrences == seen[k].occurrences
         IN  DuplicateReport(seen, k + 1,
                 IF Len(occurrences) >= MIN_DUPLICATES.v
                 THEN Append(issues, Finding("DUPLICATE_CODE",
                          Msg("Duplicate line appears", <<>>, Len(occurrences)),
                          occurrences[1], "warning"))
                 ELSE issues,
                 MIN_DUPLICATES)

DuplicateEvaluate(code, MIN_DUPLICATES) ==
    DuplicateReport(DuplicateSeen(GetLines(code), 1, <<>>), 1, <<>>, MIN_DUPLICATES)

(***************************************************************************)
(* The rules as the engine sees them: an id, for four of them a threshold  *)
(* attribute that configure sets, and evaluate.                            *)
(***************************************************************************)
MAX_BRANCHES   == 10
MAX_LINES      == 50
MAX_PARAMS     == 5
MIN_DUPLICATES == 3

ConfigurableRules == {"FUNCTION_LENGTH", "PARAMETER_COUNT", "COMPLEXITY", "DUPLICATE_CODE"}
RuleIds == ConfigurableRules \cup {"NAMING_CONVENTION", "DOCSTRING_MISSING"}

\* the class attribute a fresh instance reads through self
ClassDefault(rule) ==
    CASE rule = "COMPLEXITY"      -> Num(MAX_BRANCHES)
      [] rule = "FUNCTION_LENGTH" -> Num(MAX_LINES)
      [] rule = "PARAMETER_COUNT" -> Num(MAX_PARAMS)
      [] rule = "DUPLICATE_CODE"  -> Num(MIN_DUPLICATES)

FreshRules == [r \in ConfigurableRules |-> ClassDefault(r)]

(***************************************************************************)
(* Rule configuration.  The options of a rule are a mapping that may hold  *)
(* "enabled" and the rule's threshold key, or a value that is no mapping   *)
(* (a number, a string, null), on which .get raises AttributeError.        *)
(***************************************************************************)
NoKey == [tag |-> "absent", v |-> 0]

Options(enabled, threshold) == [kind |-> "mapping", enabled |-> enabled, threshold |-> threshold]
NotAMapping == [kind |-> "other", enabled |-> "absent", threshold |-> NoKey]
EmptyOptions == Options("absent", NoKey)

ConfigOf(entries) == [kind |-> "mapping", entries |-> entries]
ConfigNotAMapping == [kind |-> "other", entries |-> <<>>]

\* cfg = self.config.get(rule.id, {})
CfgOf(config, rule) ==
    IF rule \in DOMAIN config.entries THEN config.entries[rule] ELSE EmptyOptions

\* cfg.get("enabled", True)
AlwaysEnabled(cfg) == TRUE
IsEnabled(cfg) == cfg.enabled /= "false"

\* the value configure stores: cfg.get(<threshold key>, self.<THRESHOLD>)
ConfiguredValue(rule, cfg, current) ==
    IF cfg.threshold = NoKey THEN current ELSE cfg.threshold

\* rule.evaluate(code), reading the thresholds in attr
Evaluate(rule, code, attr) ==
    CASE rule = "NAMING_CONVENTION" -> NamingEvaluate(code)
      [] rule = "FUNCTION_LENGTH"   -> FunctionLengthEvaluate(code, attr[rule])
      [] rule = "PARAMETER_COUNT"   -> ParameterCountEvaluate(code, attr[rule])
      [] rule = "COMPLEXITY"        -> ComplexityEvaluate(code, attr[rule])
      [] rule = "DOCSTRING_MISSING" -> DocstringEvaluate(code)
      [] rule = "DUPLICATE_CODE"    -> DuplicateEvaluate(code, attr[rule])

(***************************************************************************)
(* engine/rule_engine.py: RuleEngine.analyze                               *)
(***************************************************************************)
\* the issue the except branch appends
RuleFailedSafely(rule, err) ==
    Finding(rule, Msg("Rule failed safely", <<err>>, 0), NoLine, "info")

\* the except branch: findings.append({...})
OnlyFailure(findings, rule, err) == <<RuleFailedSafely(rule, err)>>
OnRuleFailure(findings, rule, err) == Append(findings, RuleFailedSafely(rule, err))

\* `findings = []` at the start of a call; prev is what the last call returned
KeepFindings(prev) == prev
NewFindings(prev) == <<>>

\* the loop of analyze from rule k on: the thresholds and findings it ends with,
\* and the exception that left it, if any
RECURSIVE AnalyzeFrom(_, _, _, _, _, _)
AnalyzeFrom(rules, k, config, code, attr, found) ==
    IF k > Len(rules) THEN [raised |-> FALSE, err |-> "", findings |-> found, attr |-> attr]
    ELSE IF config.kind /= "mapping"
         THEN [raised |-> TRUE, err |-> "AttributeError", findings |-> found, attr |-> attr]
    ELSE LET rule == rules[k]
             cfg  == CfgOf(config, rule)
         IN  IF cfg.kind /= "mapping"
             THEN [raised |-> TRUE, err |-> "AttributeError", findings |-> found, attr |-> attr]
             ELSE IF ~IsEnabled(cfg)
                  THEN AnalyzeFrom(rules, k + 1, config, code, attr, found)
                  ELSE LET attr1 == IF rule \in ConfigurableRules
                                    THEN [attr EXCEPT ![rule] = ConfiguredValue(rule, cfg, attr[rule])]
                                    ELSE attr
                           out   == Evaluate(rule, code, attr1)
                       IN  AnalyzeFrom(rules, k + 1, config, code, attr1,
                               IF out.raised
                               THEN OnRuleFailure(found, rule, out.err)
                               ELSE found \o out.issues)

EngineAnalyze(rules, config, code, attr, prev) ==
    AnalyzeFrom(rules, 1, config, code, attr, NewFindings(prev))

(***************************************************************************)
(* Inputs of the rule engine: texts, rule lists and configs                *)
(***************************************************************************)
Pass      == <<"pass">>
IfLine    == <<"if ", "x", ":", "pass">>
DocLine   == <<TQD, "doc", TQD>>
Comment   == <<"#", "x">>

CodeSamples ==
    << \* the text of tests/test_engine.py: def BadName(): / pass
       << Ln(0, <<"def ", "BadName", "(", ")", ":">>), Ln(4, Pass) >>,
       \* a documented function, then a declaration without parentheses
       << Ln(0, <<"def ", "g", "(", "a", ",", "b", ")", ":">>), Ln(4, DocLine), Ln(4, IfLine),
          Ln(0, <<"def ", "f", ":">>), Ln(4, Pass) >>,
       \* six parameters, three equal branch lines, a blank and a comment line
       << Ln(0, <<"def ", "f", "(", "a", ",", "b", ",", "a", ",", "b", ",", "a", ",", "x", ")", ":">>),
          Ln(4, IfLine), Ln(4, <<>>), Ln(4, IfLine), Ln(4, Comment), Ln(4, IfLine) >>,
       \* no declaration at all
       << Ln(0, <<"x", "=", "g", "(", ")">>), Ln(0, <<"x", "=", "g", "(", ")">>) >>,
       \* the empty text
       << >> >>

CodeIds == 1..Len(CodeSamples)

RuleListSamples ==
    { \* run_analysis.py
      <<"NAMING_CONVENTION", "FUNCTION_LENGTH", "PARAMETER_COUNT", "COMPLEXITY", "DOCSTRING_MISSING">>,
      \* tests/test_engine_intergration.py
      <<"NAMING_CONVENTION", "DOCSTRING_MISSING">>,
      \* every rule with a threshold between two others
      <<"DOCSTRING_MISSING", "DUPLICATE_CODE", "PARAMETER_COUNT", "COMPLEXITY", "FUNCTION_LENGTH",
        "NAMING_CONVENTION">> }

ConfigSamples ==
    { ConfigOf(<<>>),
      ConfigOf([r \in {"NAMING_CONVENTION", "DOCSTRING_MISSING"} |-> Options("true", NoKey)]),
      ConfigOf([r \in ConfigurableRules |->
                   IF r = "FUNCTION_LENGTH" THEN Options("true", Num(2)) ELSE Options("absent", Num(1))]),
      ConfigOf([r \in {"NAMING_CONVENTION", "COMPLEXITY"} |-> Options("false", Num(1))]),
      ConfigOf([r \in {"FUNCTION_LENGTH", "DUPLICATE_CODE", "PARAMETER_COUNT"} |->
                   Options("absent", NotANum)]),
      ConfigOf([r \in {"COMPLEXITY"} |-> NotAMapping]),
      ConfigNotAMapping }

\* every lookup analyze makes in the config finds a mapping
ConfigWellFormed(config, rules) ==
    /\ config.kind = "mapping"
    /\ \A k \in 1..Len(rules) : CfgOf(config, rules[k]).kind = "mapping"

(***************************************************************************)
(* SpecEngine: one RuleEngine, built from a rule list of fresh rule        *)
(* instances and a config, and the calls of analyze made on it.            *)
(***************************************************************************)
EngineInit ==
    /\ engine_rules \in RuleListSamples
    /\ engine_config \in ConfigSamples
    /\ rule_attr = FreshRules
    /\ calls = <<>>

\* no engine has been built: the specifications of the other components
EngineIdle ==
    /\ engine_rules = <<>>
    /\ engine_config = ConfigOf(<<>>)
    /\ rule_attr = FreshRules
    /\ calls = <<>>

LastFindings == IF calls = <<>> THEN <<>> ELSE calls[Len(calls)].findings

\* engine.analyze(code)
Analyze ==
    /\ Len(calls) < MaxCalls
    /\ \E c \in CodeIds :
          LET r == EngineAnalyze(engine_rules, engine_config, CodeSamples[c], rule_attr, LastFindings)
          IN  /\ rule_attr' = r.attr
              /\ calls' = Append(calls, [code |-> c,
                                         status |-> IF r.raised THEN "raised" ELSE "returned",
                                         findings |-> r.findings])
    /\ UNCHANGED <<engine_rules, engine_config, exceptEngine>>

EngineNext == Analyze

(***************************************************************************)
(* C3: when a rule's evaluate raises inside RuleEngine.analyze, the engine *)
(* adds exactly one synthetic issue for that rule (severity info, line     *)
(* None, the failure text in the message), keeps the issues of the other   *)
(* rules, evaluates every later enabled rule, and the call returns         *)
(* normally.  Stated for every call made with a config whose entries are   *)
(* mappings: the findings of each enabled rule are its own issues, or the  *)
(* one synthetic issue when its evaluate raises.                           *)
(***************************************************************************)
FindingsOf(found, rule) == SelectSeq(found, LAMBDA f : f.rule = rule)

C3_FaultIsolation ==
    ConfigWellFormed(engine_config, engine_rules) =>
        \A n \in 1..Len(calls) :
            /\ calls[n].status = "returned"
            /\ \A k \in 1..Len(engine_rules) :
                  LET rule == engine_rules[k]
                      out  == Evaluate(rule, CodeSamples[calls[n].code], rule_attr)
                      mine == FindingsOf(calls[n].findings, rule)
                  IN  IsEnabled(CfgOf(engine_config, rule)) =>
                         IF out.raised
                         THEN /\ Len(mine) = 1
                              /\ mine[1].severity = "info"
                              /\ mine[1].line = NoLine
                              /\ mine[1].message = Msg("Rule failed safely", <<out.err>>, 0)
                         ELSE mine = out.issues

\* ParameterCountRule raises IndexError on `def f:` between two rules that report
C3_Witness ==
    /\ calls /= <<>>
    /\ calls[1].status = "returned"
    /\ Evaluate("PARAMETER_COUNT", CodeSamples[calls[1].code], rule_attr).raised
    /\ \E i, j, k \in 1..Len(calls[1].findings) :
          /\ i < j /\ j < k
          /\ calls[1].findings[i].rule = "NAMING_CONVENTION"
          /\ calls[1].findings[j] = RuleFailedSafely("PARAMETER_COUNT", "IndexError")
          /\ calls[1].findings[k].rule = "DOCSTRING_MISSING"

(***************************************************************************)
(* C9: analysis is idempotent: two analyze calls of one engine on the same *)
(* text return identical issue sequences (and end the same way), whatever  *)
(* texts were analysed in between.                                         *)
(***************************************************************************)
C9_Idempotent ==
    \A i, j \in 1..Len(calls) :
        calls[i].code = calls[j].code =>
            /\ calls[i].status = calls[j].status
            /\ calls[i].status = "returned" => calls[i].findings = calls[j].findings

\* the same text analysed twice with another in between, on an engine whose
\* first call rewrote a threshold, and with findings to compare
C9_Witness ==
    /\ Len(calls) = 3
    /\ calls[1].code = calls[3].code
    /\ calls[2].code /= calls[1].code
    /\ calls[1].status = "returned"
    /\ calls[1].findings /= <<>>
    /\ calls[2].findings /= <<>>
    /\ rule_attr /= FreshRules

(***************************************************************************)
(* C8: a missing or malformed rule configuration is never fatal: whatever  *)
(* the config holds, RuleEngine.analyze returns findings and no exception  *)
(* reaches the caller.                                                     *)
(***************************************************************************)
C8_ConfigNeverFatal == \A n \in 1..Len(calls) : calls[n].status = "returned"

(***************************************************************************)
(* SpecRule: rule instances used directly, as the rule tests do:           *)
(* configure(cfg) and evaluate(code) in any order.                         *)
(***************************************************************************)
OptionSamples == {Options("absent", t) : t \in {NoKey, Num(1), NotANum}}

RuleInit == last_call = [op |-> "none"]

\* rule.configure(cfg)
Configure ==
    \E rule \in ConfigurableRules, cfg \in OptionSamples :
        /\ rule_attr' = [rule_attr EXCEPT ![rule] = ConfiguredValue(rule, cfg, rule_attr[rule])]
        /\ last_call' = [op |-> "configure", rule |-> rule, cfg |-> cfg]
        /\ UNCHANGED exceptRule

\* rule.evaluate(code)
RuleEvaluate ==
    \E rule \in RuleIds, c \in CodeIds :
        /\ last_call' = [op |-> "evaluate", rule |-> rule, code |-> c,
                         out |-> Evaluate(rule, CodeSamples[c], rule_attr)]
        /\ UNCHANGED <<rule_attr, exceptRule>>

RuleNext ==
    \/ Configure
    \/ RuleEvaluate

(***************************************************************************)
(* C7: after any sequence of configure calls on a rule instance, a         *)
(* configure call whose options omit the rule's threshold key leaves the   *)
(* rule using its built-in default threshold (10, 50, 5, 3), not a value   *)
(* set by an earlier call.                                                 *)
(***************************************************************************)
C7_MissingKeyMeansDefault ==
    (last_call.op = "configure" /\ last_call.cfg.threshold = NoKey) =>
        rule_attr[last_call.rule] = ClassDefault(last_call.rule)

(***************************************************************************)
(* Git-Repo-Analysis/Config.py: analyzer configuration                     *)
(***************************************************************************)
MAX_FILE_LINES      == 400
MAX_FUNCTION_PARAMS == 5
MAX_FUNCTION_LINES  == 50

SECURITY_RISKY_CALLS == <<"eval(", "exec(", "os.system(", "subprocess.call(", "pickle.load(">>
SECURITY_CREDENTIAL_PATTERNS == <<"password =", "api_key =", "secret =">>
SECURITY_SAFE_PATTERNS == <<"os.getenv", "os.environ", "environ.get", "Config.">>

\* the suffixes file_path.lower().endswith(Config.DEEP_CHECK_EXTENSIONS) accepts
DEEP_CHECK_EXTENSIONS == {".py"}

(***************************************************************************)
(* Issues of the analyzers: {type, severity, message, line}                *)
(***************************************************************************)
Issue(type, severity, message, line) ==
    [type |-> type, severity |-> severity, message |-> message, line |-> line]

\* `pattern in line` for a pattern that is one lexeme
Contains(toks, tok) == \E i \in 1..Len(toks) : toks[i] = tok

\* the last index of tok in q, 0 when q does not hold it (str.rfind + 1)
LastIndex(q, tok) ==
    IF \E i \in 1..Len(q) : q[i] = tok
    THEN CHOOSE i \in 1..Len(q) : q[i] = tok /\ \A j \in (i + 1)..Len(q) : q[j] /= tok
    ELSE 0

\* stripped.endswith(tok)
EndsWith(toks, tok) == toks /= <<>> /\ toks[Len(toks)] = tok

(***************************************************************************)
(* analyzers/security_analyzer.py                                          *)
(***************************************************************************)
\* the issues of one line: the risky calls it holds, then the credential
\* patterns it holds when no safe pattern is on the line
SecurityLineNoAllowList(toks, line_no) ==
    LET risky == SelectSeq(SECURITY_RISKY_CALLS, LAMBDA call : Contains(toks, call))
        creds == SelectSeq(SECURITY_CREDENTIAL_PATTERNS, LAMBDA cred : Contains(toks, cred))
    IN  [k \in 1..Len(risky) |->
            Issue("security", "high", Msg("usage detected", <<risky[k]>>, 0), line_no)]
        \o [k \in 1..Len(creds) |->
            Issue("security", "high", Msg("Potential hardcoded credential detected", <<>>, 0), line_no)]

SecurityLine(toks, line_no) ==
    LET risky == SelectSeq(SECURITY_RISKY_CALLS, LAMBDA call : Contains(toks, call))
        is_safe == \E k \in 1..Len(SECURITY_SAFE_PATTERNS) : Contains(toks, SECURITY_SAFE_PATTERNS[k])
        creds == SelectSeq(SECURITY_CREDENTIAL_PATTERNS, LAMBDA cred : Contains(toks, cred) /\ ~is_safe)
    IN  [k \in 1..Len(risky) |->
            Issue("security", "high", Msg("usage detected", <<risky[k]>>, 0), line_no)]
        \o [k \in 1..Len(creds) |->
            Issue("security", "high", Msg("Potential hardcoded credential detected", <<>>, 0), line_no)]

RECURSIVE SecurityScan(_, _)
SecurityScan(content, i) ==
    IF i > Len(content) THEN <<>>
    ELSE SecurityLine(content[i].toks, i) \o SecurityScan(content, i + 1)

SecurityAnalyze(content) == Returned(SecurityScan(content, 1))

(***************************************************************************)
(* analyzers/quality_analyzer.py.  Lines are numbered from 1 here, so the  *)
(* code's i and j are I - 1 and J - 1; j = 0 stands for "j is not bound".  *)
(***************************************************************************)
\* the parameter check of a declaration line (its exceptions are swallowed)
TooManyParams(stripped) ==
    LET start_paren == FirstIndex(stripped, "(")
        end_paren   == LastIndex(stripped, ")")
        params_str  == SubSeq(stripped, start_paren + 1, end_paren - 1)
    IN  /\ start_paren /= 0
        /\ end_paren /= 0
        /\ params_str /= <<>>
        /\ Count(params_str, ",") + 1 > MAX_FUNCTION_PARAMS

\* `for j in range(i + 1, len(lines))`: where j is left, and has_docstring
RECURSIVE QualityBody(_, _, _, _, _)
QualityBody(lines, def_indent, J, found_body, has_docstring) ==
    LET sub == lines[J]
        next_found == found_body \/ sub.toks /= <<>>
        next_doc   == IF ~found_body /\ sub.toks /= <<>>
                      THEN StartsWith(sub.toks, TQD) \/ StartsWith(sub.toks, TQS)
                      ELSE has_docstring
    IN  IF sub.toks /= <<>> /\ sub.ind <= def_indent
        THEN [j |-> J, has_docstring |-> has_docstring]
        ELSE IF J = Len(lines)
             THEN [j |-> J, has_docstring |-> next_doc]
             ELSE QualityBody(lines, def_indent, J + 1, next_found, next_doc)

\* the issues of the declaration on line I, and j afterwards; j0 is j before
QualityDef(lines, I, j0) ==
    LET line == lines[I]
        body == IF I < Len(lines)
                THEN QualityBody(lines, line.ind, I + 1, FALSE, FALSE)
                ELSE [j |-> j0, has_docstring |-> FALSE]
        total_func_lines == body.j - I
    IN  [raised |-> body.j = 0,
         j |-> body.j,
         issues |->
            (IF TooManyParams(line.toks)
             THEN <<Issue("quality", "medium", Msg("Too many parameters, consider using an object", <<>>, 0), I)>>
             ELSE <<>>)
            \o (IF total_func_lines > MAX_FUNCTION_LINES
                THEN <<Issue("quality", "medium", Msg("Function too long, consider refactoring", <<>>, 0), I)>>
                ELSE <<>>)
            \o (IF ~body.has_docstring
                THEN <<Issue("quality", "low", Msg("Missing docstring for function", <<>>, 0), I)>>
                ELSE <<>>)]

RECURSIVE QualityScan(_, _, _, _)
QualityScan(lines, I, j, issues) ==
    IF I > Len(lines) THEN Returned(issues)
    ELSE IF StartsWith(lines[I].toks, "def ") /\ EndsWith(lines[I].toks, ":")
         THEN LET d == QualityDef(lines, I, j)
              IN  IF d.raised THEN Raised("UnboundLocalError")
                  ELSE QualityScan(lines, I + 1, d.j, issues \o d.issues)
         ELSE QualityScan(lines, I + 1, j, issues)

QualityAnalyze(content) ==
    QualityScan(content, 1, 0,
        IF Len(content) > MAX_FILE_LINES
        THEN <<Issue("quality", "medium", Msg("File too large, consider splitting into modules", <<>>, 0), NoLine)>>
        ELSE <<>>)

(***************************************************************************)
(* analyzers/performance_analyzer.py                                       *)
(***************************************************************************)
PerformanceStart ==
    [loop_stack |-> <<>>, in_string_block |-> FALSE, string_delimiter |-> "None", issues |-> <<>>]

\* `while loop_stack and indent <= loop_stack[-1]: loop_stack.pop()`
RECURSIVE PopClosed(_, _)
PopClosed(loop_stack, indent) ==
    IF loop_stack /= <<>> /\ indent <= loop_stack[Len(loop_stack)]
    THEN PopClosed(SubSeq(loop_stack, 1, Len(loop_stack) - 1), indent)
    ELSE loop_stack

\* a line inside a block ends it on an odd count of either delimiter
ClosesOnEither(st, count_double, count_single) ==
    count_double % 2 = 1 \/ count_single % 2 = 1

\* inside a block: the count of the delimiter that opened it is odd
ClosesBlock(st, count_double, count_single) ==
    \/ st.string_delimiter = TQD /\ count_double % 2 = 1
    \/ st.string_delimiter = TQS /\ count_single % 2 = 1

\* one iteration of the for loop over the lines; line_no is i + 1
PerformanceStep(st, line, line_no) ==
    LET stripped     == line.toks
        count_double == Count(line.toks, TQD)
        count_single == Count(line.toks, TQS)
        \* len(line) - len(line.strip()): leading and trailing blanks
        indent       == line.ind + line.trail
        code_part    == UpTo(line.toks, "#")
        stack        == PopClosed(st.loop_stack, indent)
    IN  IF stripped = <<>> THEN st
        ELSE IF st.in_string_block
        THEN IF ClosesBlock(st, count_double, count_single)
             THEN [st EXCEPT !.in_string_block = FALSE]
             ELSE st
        ELSE IF count_double % 2 = 1
        THEN [st EXCEPT !.in_string_block = TRUE, !.string_delimiter = TQD]
        ELSE IF count_single % 2 = 1
        THEN [st EXCEPT !.in_string_block = TRUE, !.string_delimiter = TQS]
        ELSE IF StartsWith(stripped, "#") THEN st
        ELSE IF StartsWith(code_part, "for ") /\ EndsWith(code_part, ":")
             THEN [st EXCEPT !.loop_stack = Append(stack, indent),
                             !.issues = IF stack /= <<>>
                                        THEN Append(st.issues,
                                                 Issue("performance", "high",
                                                       Msg("Possible nested loop detected (O(n^2) risk)", <<>>, 0),
                                                       line_no))
                                        ELSE st.issues]
             ELSE [st EXCEPT !.loop_stack = stack]

RECURSIVE PerformanceScan(_, _, _)
PerformanceScan(content, i, st) ==
    IF i > Len(content) THEN st
    ELSE PerformanceScan(content, i + 1, PerformanceStep(st, content[i], i))

PerformanceAnalyze(content) == Returned(PerformanceScan(content, 1, PerformanceStart).issues)

(***************************************************************************)
(* Files.  A path is a name and an extension; a file can be opened or not  *)
(* and holds a text.                                                       *)
(***************************************************************************)
ForLine    == <<"for ", "x", ":">>
EvalLine   == <<"x", "=", "eval(", "x", ")">>
SecretLine == <<"password =", "x">>
EnvLine    == <<"password =", "os.getenv", "(", "x", ")">>

FileSamples ==
    << \* a risky call, a nested loop, a documented function
       [path |-> <<"a", ".py">>, readable |-> TRUE,
        content |-> << Ln(0, EvalLine), Ln(0, <<"def ", "f", "(", "a", ")", ":">>), Ln(4, DocLine),
                       Ln(4, ForLine), Ln(8, ForLine), Ln(12, Pass) >>],
       \* a nested loop and a credential, then a first declaration on the last line
       [path |-> <<"b", ".py">>, readable |-> TRUE,
        content |-> << Ln(0, ForLine), Ln(4, ForLine), Ln(8, SecretLine), Ln(0, <<"def ", "f", "(", ")", ":">>) >>],
       \* a path that cannot be opened
       [path |-> <<"gone", ".py">>, readable |-> FALSE, content |-> <<>>],
       \* not a deep-check extension
       [path |-> <<"c", ".js">>, readable |-> TRUE,
        content |-> << Ln(0, ForLine), Ln(4, ForLine), Ln(0, EnvLine), Ln(0, <<"exec(", "x", ")">>) >>],
       \* an upper-case extension
       [path |-> <<"D", ".PY">>, readable |-> TRUE, content |-> CodeSamples[3]] >>

FileIds == 1..Len(FileSamples)

\* the deep checks on every path
DeepCheckEveryPath(path) == TRUE

\* file_path.lower().endswith(Config.DEEP_CHECK_EXTENSIONS)
IsDeepCheck(path) == Lower(path[2]) \in DEEP_CHECK_EXTENSIONS

(***************************************************************************)
(* analyzers/analysis_engine.py                                            *)
(***************************************************************************)
\* the body of the try of analyze_file, analyzer by analyzer: the issues
\* collected when the try is left, by its end or by an exception
Extend(issues, out) == issues \o out.issues
ExtendOrAbort(issues, out) ==
    [aborted |-> out.raised, issues |-> IF out.raised THEN issues ELSE issues \o out.issues]

EngineAnalyzeFile(file) ==
    LET security    == SecurityAnalyze(file.content)
        quality     == QualityAnalyze(file.content)
        performance == PerformanceAnalyze(file.content)
        s1 == ExtendOrAbort(<<>>, security)
        s2 == IF s1.aborted THEN s1 ELSE ExtendOrAbort(s1.issues, quality)
        s3 == IF s2.aborted THEN s2 ELSE ExtendOrAbort(s2.issues, performance)
    IN  [file |-> file.path,
         issues |-> IF ~file.readable THEN <<>>
                    ELSE IF ~IsDeepCheck(file.path) THEN s1.issues
                    ELSE s3.issues]

\* results.append(result)
AppendIfIssues(results, result) ==
    IF result.issues = <<>> THEN results ELSE Append(results, result)
AppendResult(results, result) == Append(results, result)

\* analyze_project: the loop over code_files
RECURSIVE EngineAnalyzeProject(_)
EngineAnalyzeProject(code_files) ==
    IF code_files = <<>> THEN <<>>
    ELSE AppendResult(EngineAnalyzeProject(SubSeq(code_files, 1, Len(code_files) - 1)),
                      EngineAnalyzeFile(FileSamples[code_files[Len(code_files)]]))

(***************************************************************************)
(* NexaTest/run_analysis.py.  The config file is absent, or holds a config *)
(* of the rule engine.                                                     *)
(***************************************************************************)
NoConfigFile      == [present |-> FALSE, config |-> ConfigOf(<<>>)]
ConfigFile(config) == [present |-> TRUE, config |-> config]

\* the rules analyze_file builds its engine with, each a fresh instance
RunAnalysisRules ==
    <<"NAMING_CONVENTION", "FUNCTION_LENGTH", "PARAMETER_COUNT", "COMPLEXITY", "DOCSTRING_MISSING">>

\* issue.get("severity") and issue.get("type") over findings and issues
SeverityCount(findings, severity) ==
    Cardinality({k \in 1..Len(findings) : findings[k].severity = severity})
TypeCount(findings, type) ==
    Cardinality({k \in 1..Len(findings) :
                    "type" \in DOMAIN findings[k] /\ findings[k].type = type})

\* analyze_file(file_path): open, load_config, engine.analyze, report
NexaAnalyzeFile(file, config_file) ==
    IF ~file.readable THEN Raised("FileNotFoundError")
    ELSE IF ~config_file.present THEN Raised("FileNotFoundError")
    ELSE LET out == EngineAnalyze(RunAnalysisRules, config_file.config, file.content, FreshRules, <<>>)
         IN  IF out.raised THEN Raised(out.err) ELSE Returned(out.findings)

(***************************************************************************)
(* services/analysis_service.py                                            *)
(***************************************************************************)
Report(path, findings) ==
    [file |-> path, issues |-> findings, ai_suggestions |-> FALSE,
     summary |-> [total    |-> Len(findings),
                  errors   |-> SeverityCount(findings, "error"),
                  warnings |-> SeverityCount(findings, "warning"),
                  security |-> TypeCount(findings, "security")]]

\* _analyze_single_file: the rule findings, then the security issues when the
\* file can be read; an exception of the rule analysis leaves the method
AnalyzeSingleFile(file, e) ==
    LET nexa     == IF e.nexatest THEN NexaAnalyzeFile(file, e.config_file) ELSE Returned(<<>>)
        security == IF e.security /\ file.readable
                    THEN SecurityAnalyze(file.content).issues ELSE <<>>
    IN  IF nexa.raised THEN [raised |-> TRUE, report |-> Report(file.path, <<>>)]
        ELSE [raised |-> FALSE, report |-> Report(file.path, nexa.issues \o security)]

\* the loop of analyze_files: a report is appended unless the call raised
RECURSIVE ServiceResults(_, _)
ServiceResults(file_paths, e) ==
    IF file_paths = <<>> THEN <<>>
    ELSE LET n    == Len(file_paths)
             rest == ServiceResults(SubSeq(file_paths, 1, n - 1), e)
             one  == AnalyzeSingleFile(FileSamples[file_paths[n]], e)
         IN  IF one.raised THEN rest ELSE Append(rest, one.report)

AI_TOP_PROBLEM_FILES == 3

\* ai_reviewer.select_top_problem_files: the positions of the reports with
\* issues that a stable descending sort by issue count puts first
TopProblemFiles(results) ==
    LET cnt(k) == Len(results[k].issues)
        before(k) == {j \in 1..Len(results) :
                         cnt(j) > 0 /\ (cnt(j) > cnt(k) \/ (cnt(j) = cnt(k) /\ j < k))}
    IN  {k \in 1..Len(results) : cnt(k) > 0 /\ Cardinality(before(k)) < AI_TOP_PROBLEM_FILES}

\* the merge of the review map into the results, by file path
MergeReviews(results) ==
    LET reviewed == {results[k].file : k \in TopProblemFiles(results)}
    IN  [k \in 1..Len(results) |->
            [results[k] EXCEPT !.ai_suggestions = results[k].file \in reviewed]]

ServiceAnalyzeFiles(file_paths, e) ==
    LET results == ServiceResults(file_paths, e)
    IN  IF e.ai THEN MergeReviews(results) ELSE results

(***************************************************************************)
(* SpecBatch: the batch calls.  The environment is fixed when the service  *)
(* module is imported; a call analyses a list of paths.  A call reads      *)
(* nothing an earlier call wrote, so a behaviour makes one call.           *)
(***************************************************************************)
Env(nexatest, security, ai, config_file) ==
    [nexatest |-> nexatest, security |-> security, ai |-> ai, config_file |-> config_file]

EnvSamples ==
    { Env(TRUE, TRUE, TRUE, ConfigFile(ConfigOf(<<>>))),
      Env(TRUE, TRUE, FALSE, NoConfigFile),
      Env(FALSE, TRUE, TRUE, NoConfigFile),
      Env(TRUE, FALSE, FALSE,
          ConfigFile(ConfigOf([r \in ConfigurableRules |-> Options("true", Num(2))]))),
      Env(TRUE, TRUE, TRUE, ConfigFile(ConfigNotAMapping)) }

RECURSIVE SeqsUpTo(_, _)
SeqsUpTo(S, n) ==
    IF n = 0 THEN {<<>>}
    ELSE LET shorter == SeqsUpTo(S, n - 1)
         IN  shorter \cup {Append(q, x) : q \in shorter, x \in S}

PathLists == SeqsUpTo(FileIds, MaxPaths)

BatchInit ==
    /\ env \in EnvSamples
    /\ batch = [op |-> "none", paths |-> <<>>, reports |-> <<>>]

\* no batch call is made: the specifications of the other components
BatchIdle ==
    /\ env = Env(FALSE, FALSE, FALSE, NoConfigFile)
    /\ batch = [op |-> "none", paths |-> <<>>, reports |-> <<>>]

\* AnalysisEngine().analyze_project(code_files)
AnalyzeProject ==
    /\ batch.op = "none"
    /\ \E code_files \in PathLists :
          batch' = [op |-> "analyze_project", paths |-> code_files,
                    reports |-> EngineAnalyzeProject(code_files)]
    /\ UNCHANGED <<env, exceptBatch>>

\* AnalysisService().analyze_files(file_paths)
AnalyzeFiles ==
    /\ batch.op = "none"
    /\ \E file_paths \in PathLists :
          batch' = [op |-> "analyze_files", paths |-> file_paths,
                    reports |-> ServiceAnalyzeFiles(file_paths, env)]
    /\ UNCHANGED <<env, exceptBatch>>

BatchNext == AnalyzeProject \/ AnalyzeFiles

PathOf(id) == FileSamples[id].path

IssuesOfType(issues, type) ==
    SelectSeq(issues, LAMBDA i : "type" \in DOMAIN i /\ i.type = type)

\* C4: in a report of analyze_project for a readable deep-check file, the
\* issues of each analyzer that did not raise are all there, whatever the
\* other analyzers did: when QualityAnalyzer raises, the issues of
\* PerformanceAnalyzer (and of SecurityAnalyzer) are still in the report.
C4_AnalyzerIsolation ==
    batch.op = "analyze_project" =>
        \A k \in 1..Len(batch.reports) :
            LET file == FileSamples[batch.paths[k]]
                issues == batch.reports[k].issues
            IN  (file.readable /\ IsDeepCheck(file.path)) =>
                    /\ IssuesOfType(issues, "security") = SecurityAnalyze(file.content).issues
                    /\ IssuesOfType(issues, "quality") = QualityAnalyze(file.content).issues
                    /\ IssuesOfType(issues, "performance") = PerformanceAnalyze(file.content).issues

\* C5: analyze_project returns one report per input path, in input order,
\* duplicates included; the report of a file that cannot be read has no
\* issues, and a readable file next to it still has its security issues.
C5_OneReportPerPath ==
    batch.op = "analyze_project" =>
        /\ Len(batch.reports) = Len(batch.paths)
        /\ \A k \in 1..Len(batch.paths) :
              LET file == FileSamples[batch.paths[k]]
              IN  /\ batch.reports[k].file = file.path
                  /\ ~file.readable => batch.reports[k].issues = <<>>
                  /\ file.readable =>
                        IssuesOfType(batch.reports[k].issues, "security")
                            = SecurityAnalyze(file.content).issues

\* an unreadable file first, the same readable file twice after it
C5_Witness ==
    /\ batch.op = "analyze_project"
    /\ Len(batch.paths) = 3
    /\ ~FileSamples[batch.paths[1]].readable
    /\ batch.paths[2] = batch.paths[3]
    /\ Len(batch.reports) = 3
    /\ batch.reports[1].issues = <<>>
    /\ batch.reports[3].issues /= <<>>

\* C6: analyze_files returns one report per input path, in input order, also
\* when the analysis of one of the files fails.
C6_OneReportPerPath ==
    batch.op = "analyze_files" =>
        /\ Len(batch.reports) = Len(batch.paths)
        /\ \A k \in 1..Len(batch.paths) : batch.reports[k].file = PathOf(batch.paths[k])

(***************************************************************************)
(* SpecConc: workers that call analyze of one RuleEngine, or analyze_file  *)
(* of one AnalysisEngine, at the same time.  A step is what a worker does  *)
(* between two points where another worker can run: the lookup of a rule's *)
(* options with the read of its threshold attribute, the store of          *)
(* configure, the evaluation of a rule, the run of one analyzer.           *)
(***************************************************************************)
Workers == {"w1", "w2"}

ConcCodeIds == {2, 3}
ConcFileIds == {1, 2}

\* the engine run_analysis.py builds, over three configs: an empty one, one
\* that sets every threshold, one with an entry that is not a mapping
ConcConfigs ==
    { ConfigOf(<<>>),
      ConfigOf([r \in ConfigurableRules |->
                   IF r = "FUNCTION_LENGTH" THEN Options("true", Num(2)) ELSE Options("absent", Num(1))]),
      ConfigOf([r \in {"COMPLEXITY"} |-> NotAMapping]) }

ConcEngineInit ==
    /\ engine_rules = RunAnalysisRules
    /\ engine_config \in ConcConfigs
    /\ rule_attr = FreshRules
    /\ calls = <<>>

\* `findings = []` (analyze) and `issues = []` (analyze_file) are locals: each
\* call has a list of its own
SharedFindings(t) == "w1"
FindingsOwner(t) == t

Pc(phase, input, k, tmp) == [phase |-> phase, input |-> input, k |-> k, tmp |-> tmp]
IdleWorker == Pc("idle", 0, 0, NoKey)
NoResult == [op |-> "none", input |-> 0, status |-> "", findings |-> <<>>, overlap |-> FALSE]

ConcInit ==
    /\ conc_pc = [t \in Workers |-> IdleWorker]
    /\ conc_findings = [t \in Workers |-> <<>>]
    /\ conc_result = NoResult

Busy(t) == conc_pc[t].phase /= "idle"

Enter(t, phase, input) == [conc_pc EXCEPT ![t] = Pc(phase, input, 1, NoKey)]

MyFindings(t) == conc_findings[FindingsOwner(t)]
SetFindings(t, found) == [conc_findings EXCEPT ![FindingsOwner(t)] = found]

\* worker t leaves its call; overlap: another call is in progress
Leave(t, op, status) ==
    /\ conc_result' = [op |-> op, input |-> conc_pc[t].input, status |-> status,
                       findings |-> MyFindings(t),
                       overlap |-> \E w \in Workers \ {t} : Busy(w)]
    /\ conc_pc' = [conc_pc EXCEPT ![t] = IdleWorker]

\* engine.analyze(code) is called: findings = []
ConcAnalyze(t) ==
    /\ ~Busy(t)
    /\ \E c \in ConcCodeIds : conc_pc' = Enter(t, "rule", c)
    /\ conc_findings' = SetFindings(t, <<>>)
    /\ UNCHANGED <<rule_attr, conc_result, exceptConc>>

\* the top of the loop body: the options of the rule, the enabled test, and
\* the read of self.<THRESHOLD> that configure makes before it stores
ConcLookup(t) ==
    /\ conc_pc[t].phase = "rule"
    /\ conc_pc[t].k <= Len(engine_rules)
    /\ LET rule == engine_rules[conc_pc[t].k]
       IN  IF engine_config.kind /= "mapping" \/ CfgOf(engine_config, rule).kind /= "mapping"
           THEN Leave(t, "analyze", "raised")
           ELSE /\ conc_pc' = [conc_pc EXCEPT ![t] =
                      IF ~IsEnabled(CfgOf(engine_config, rule))
                      THEN [@ EXCEPT !.k = @ + 1]
                      ELSE IF rule \in ConfigurableRules
                           THEN [@ EXCEPT !.phase = "store", !.tmp = rule_attr[rule]]
                           ELSE [@ EXCEPT !.phase = "evaluate"]]
                /\ UNCHANGED conc_result
    /\ UNCHANGED <<rule_attr, conc_findings, exceptConc>>

\* configure stores the value it computed
ConcStore(t) ==
    /\ conc_pc[t].phase = "store"
    /\ LET rule == engine_rules[conc_pc[t].k]
       IN  rule_attr' = [rule_attr EXCEPT ![rule] =
                            ConfiguredValue(rule, CfgOf(engine_config, rule), conc_pc[t].tmp)]
    /\ conc_pc' = [conc_pc EXCEPT ![t] = [@ EXCEPT !.phase = "evaluate", !.tmp = NoKey]]
    /\ UNCHANGED <<conc_findings, conc_result, exceptConc>>

\* the try statement: rule.evaluate(code), findings.extend or the except branch
ConcEvaluate(t) ==
    /\ conc_pc[t].phase = "evaluate"
    /\ LET rule == engine_rules[conc_pc[t].k]
           out  == Evaluate(rule, CodeSamples[conc_pc[t].input], rule_attr)
       IN  conc_findings' = SetFindings(t,
               IF out.raised THEN OnRuleFailure(MyFindings(t), rule, out.err)
               ELSE MyFindings(t) \o out.issues)
    /\ conc_pc' = [conc_pc EXCEPT ![t] = [@ EXCEPT !.phase = "rule", !.k = @ + 1]]
    /\ UNCHANGED <<rule_attr, conc_result, exceptConc>>

\* return findings
ConcReturn(t) ==
    /\ conc_pc[t].phase = "rule"
    /\ conc_pc[t].k > Len(engine_rules)
    /\ Leave(t, "analyze", "returned")
    /\ UNCHANGED <<rule_attr, conc_findings, exceptConc>>

\* analysis_engine.analyze_file(file_path) is called: issues = []
ConcAnalyzeFile(t) ==
    /\ ~Busy(t)
    /\ \E f \in ConcFileIds : conc_pc' = Enter(t, "open", f)
    /\ conc_findings' = SetFindings(t, <<>>)
    /\ UNCHANGED <<rule_attr, conc_result, exceptConc>>

\* one statement of the try of analyze_file: the read of the file, then an
\* analyzer; an exception goes to the return
ConcFileStep(t) ==
    /\ conc_pc[t].phase \in {"open", "security", "quality", "performance"}
    /\ LET file  == FileSamples[conc_pc[t].input]
           phase == conc_pc[t].phase
           out   == CASE phase = "security" -> SecurityAnalyze(file.content)
                      [] phase = "quality" -> QualityAnalyze(file.content)
                      [] phase = "performance" -> PerformanceAnalyze(file.content)
                      [] OTHER -> IF file.readable THEN Returned(<<>>) ELSE Raised("OSError")
           next  == CASE out.raised -> "return"
                      [] phase = "open" -> "security"
                      [] phase = "security" -> IF IsDeepCheck(file.path) THEN "quality" ELSE "return"
                      [] phase = "quality" -> "performance"
                      [] OTHER -> "return"
       IN  /\ conc_findings' = SetFindings(t, Extend(MyFindings(t), out))
           /\ conc_pc' = [conc_pc EXCEPT ![t] = [@ EXCEPT !.phase = next]]
    /\ UNCHANGED <<rule_attr, conc_result, exceptConc>>

\* return {"file": file_path, "issues": issues}
ConcReturnFile(t) ==
    /\ conc_pc[t].phase = "return"
    /\ Leave(t, "analyze_file", "returned")
    /\ UNCHANGED <<rule_attr, conc_findings, exceptConc>>

ConcNext ==
    \E t \in Workers :
        \/ ConcAnalyze(t)
        \/ ConcLookup(t)
        \/ ConcStore(t)
        \/ ConcEvaluate(t)
        \/ ConcReturn(t)
        \/ ConcAnalyzeFile(t)
        \/ ConcFileStep(t)
        \/ ConcReturnFile(t)

\* what the call gives when no other call is in progress
Alone(op, input) ==
    IF op = "analyze"
    THEN LET r == EngineAnalyze(engine_rules, engine_config, CodeSamples[input], FreshRules, <<>>)
         IN  [status |-> IF r.raised THEN "raised" ELSE "returned", findings |-> r.findings]
    ELSE [status |-> "returned", findings |-> EngineAnalyzeFile(FileSamples[input]).issues]

\* C10: whatever the interleaving of the calls of the workers on the shared
\* engine, every call returns the issue sequence the same call gives alone.
C10_SameAsAlone ==
    conc_result.op /= "none" =>
        /\ conc_result.status = Alone(conc_result.op, conc_result.input).status
        /\ conc_result.findings = Alone(conc_result.op, conc_result.input).findings

\* a call of analyze has returned issues while another worker, past its
\* first rule, evaluates a rule on another text, after configure has changed
\* a threshold of the shared rule instances
C10_Witness ==
    /\ conc_result.op = "analyze"
    /\ conc_result.overlap
    /\ conc_result.findings /= <<>>
    /\ rule_attr /= FreshRules
    /\ \E t \in Workers : /\ conc_pc[t].phase = "evaluate"
                          /\ conc_pc[t].k > 1
                          /\ conc_pc[t].input /= conc_result.input
                          /\ MyFindings(t) /= <<>>

(***************************************************************************)
(* Direct calls of one analyzer or one rule on a text.  The texts are all  *)
(* the sequences, up to a length, over a few lines chosen for the claim.   *)
(* An analyzer keeps no state and a call reads nothing an earlier call     *)
(* wrote, so a behaviour makes one call.                                   *)
(***************************************************************************)
\* the lexical state Python is in after the lexemes of a line: "code", or the
\* delimiter of the triple-quoted block that is open
RECURSIVE LexToks(_, _, _)
LexToks(state, toks, k) ==
    IF k > Len(toks) THEN state
    ELSE IF state = "code"
         THEN IF toks[k] = "#" THEN state
              ELSE IF toks[k] \in {TQD, TQS} THEN LexToks(toks[k], toks, k + 1)
              ELSE LexToks(state, toks, k + 1)
         ELSE LexToks(IF toks[k] = state THEN "code" ELSE state, toks, k + 1)

\* the lexical state at the start of line i of a text
RECURSIVE LexBefore(_, _)
LexBefore(content, i) ==
    IF i = 1 THEN "code" ELSE LexToks(LexBefore(content, i - 1), content[i - 1].toks, 1)

InsideBlock(content, i) == LexBefore(content, i) /= "code"

\* the text with every line that lies inside a triple-quoted block and starts
\* with one of the keywords replaced by a line of plain text at the same place
WithoutQuoted(content, keywords) ==
    [i \in 1..Len(content) |->
        IF InsideBlock(content, i) /\ \E kw \in keywords : StartsWith(content[i].toks, kw)
        THEN [content[i] EXCEPT !.toks = <<"x">>]
        ELSE content[i]]

MaxPerfLines == 4   \* longest text fed to PerformanceAnalyzer.analyze

\* the line with n blanks after its text
Trailing(line, n) == [line EXCEPT !.trail = n]

PerfLines ==
    { Ln(0, <<"x", "#", TQD>>), Ln(0, <<TQD>>), Ln(4, <<TQS>>), Ln(0, DocLine),
      Ln(0, ForLine), Ln(4, ForLine), Ln(0, <<"x">>),
      Trailing(Ln(0, ForLine), 4),
      Ln(4, <<"for ", "c", "in", TQD, "xy", TQD, ":">>),
      Ln(0, <<"#", TQD>>) }

PerfTexts == SeqsUpTo(PerfLines, MaxPerfLines)

\* PerformanceAnalyzer().analyze(file_path, content)
PerformanceCall ==
    /\ last_call.op = "none"
    /\ \E content \in PerfTexts :
          last_call' = [op |-> "performance", content |-> content,
                        out |-> PerformanceAnalyze(content)]
    /\ UNCHANGED <<rule_attr, exceptRule>>

\* C11: a `for` line inside a triple-quoted block produces no nested-loop
\* issue, neither at its own line nor through the loop stack: the issues are
\* those of the text in which these lines hold no `for`.
C11_QuotedLoopsIgnored ==
    last_call.op = "performance" =>
        /\ \A k \in 1..Len(last_call.out.issues) :
              ~InsideBlock(last_call.content, last_call.out.issues[k].line)
        /\ last_call.out.issues = PerformanceAnalyze(WithoutQuoted(last_call.content, {"for "})).issues

(***************************************************************************)
(* SpecRuleText: one rule instance, configured at most once with a small   *)
(* threshold and then evaluated once on a text.                            *)
(***************************************************************************)
MaxRuleLines == 4    \* longest enumerated text fed to a rule
MaxIfLines   == 11   \* most branch lines in the one-function texts
MaxBody      == 51   \* most body lines in the one-function texts

MaxParamList == 3    \* most parameters in the one-declaration texts

TextRules == {"COMPLEXITY", "FUNCTION_LENGTH", "DUPLICATE_CODE", "PARAMETER_COUNT"}
TextThresholds == {1, 2}

DefF == <<"def ", "f", "(", ")", ":">>

\* a declaration followed by n lines of its body
OneFunction(n, body) == <<Ln(0, DefF)>> \o [k \in 1..n |-> Ln(4, body)]

ComplexityLines ==
    { Ln(0, DefF), Ln(4, IfLine), Ln(4, ForLine), Ln(4, <<TQD>>), Ln(4, <<"x">>),
      Ln(0, IfLine) }
FunctionLengthLines ==
    { Ln(0, DefF), Ln(4, <<"x">>), Ln(0, <<>>), Ln(4, <<>>), Ln(0, <<"x">>) }
DuplicateLines ==
    { Ln(0, <<"x">>), Ln(4, <<"x">>), Ln(0, <<"y">>), Ln(0, Comment), Ln(0, <<>>) }

\* a parameter, and a parameter whose default value is a call
PlainParam   == <<"a">>
DefaultParam == <<"b", "=", "g", "(", "1", ")">>

RECURSIVE JoinParams(_)
\* the parameters of a list with a comma between two of them
JoinParams(params) ==
    IF params = <<>> THEN <<>>
    ELSE IF Len(params) = 1 THEN params[1]
    ELSE params[1] \o <<",">> \o JoinParams(Tail(params))

\* the one-line text `def f(<params>):`
Declaration(params) == <<Ln(0, <<"def ", "f", "(">> \o JoinParams(params) \o <<")", ":">>)>>

ParameterTexts ==
    {Declaration(params) : params \in SeqsUpTo({PlainParam, DefaultParam}, MaxParamList)}

RuleTexts(rule) ==
    CASE rule = "PARAMETER_COUNT" -> ParameterTexts
      [] rule = "COMPLEXITY" ->
            SeqsUpTo(ComplexityLines, MaxRuleLines) \cup {OneFunction(n, IfLine) : n \in 0..MaxIfLines}
      [] rule = "FUNCTION_LENGTH" ->
            SeqsUpTo(FunctionLengthLines, MaxRuleLines) \cup {OneFunction(n, <<"x">>) : n \in 0..MaxBody}
      [] rule = "DUPLICATE_CODE" -> SeqsUpTo(DuplicateLines, MaxRuleLines)

\* rule.configure({<threshold key>: n}) on a fresh instance
ThresholdConfigure ==
    /\ last_call.op = "none"
    /\ \E rule \in TextRules, n \in TextThresholds :
          /\ rule_attr' = [rule_attr EXCEPT ![rule] =
                              ConfiguredValue(rule, Options("absent", Num(n)), rule_attr[rule])]
          /\ last_call' = [op |-> "configure", rule |-> rule, cfg |-> Options("absent", Num(n))]
    /\ UNCHANGED exceptRule

\* rule.evaluate(code), on the instance that was configured if one was
TextEvaluate ==
    /\ last_call.op \in {"none", "configure"}
    /\ \E rule \in TextRules :
          /\ last_call.op = "configure" => rule = last_call.rule
          /\ \E code \in RuleTexts(rule) :
                last_call' = [op |-> "evaluate_text", rule |-> rule, code |-> code,
                              threshold |-> rule_attr[rule].v,
                              out |-> Evaluate(rule, code, rule_attr)]
    /\ UNCHANGED <<rule_attr, exceptRule>>

RuleTextNext ==
    \/ ThresholdConfigure
    \/ TextEvaluate

Evaluated(rule) == last_call.op = "evaluate_text" /\ last_call.rule = rule

\* C12: a line inside a triple-quoted block that starts with a branch
\* keyword is not counted by ComplexityRule.evaluate: the issues are those of
\* the text in which these lines hold no keyword.
C12_QuotedBranchesIgnored ==
    Evaluated("COMPLEXITY") =>
        last_call.out.issues =
            ComplexityEvaluate(WithoutQuoted(last_call.code, {branch_keywords[k] : k \in 1..Len(branch_keywords)}),
                               Num(last_call.threshold)).issues

\* the lines of a text that declare a function, and for such a line d the
\* line that ends its span: the first later line that is not blank and is
\* indented no deeper than d, or the line after the last
DefLines(code) == {i \in 1..Len(code) : StartsWith(code[i].toks, "def ")}

SpanEnd(code, d) ==
    LET closing == {j \in (d + 1)..Len(code) : code[j].toks /= <<>> /\ code[j].ind <= code[d].ind}
    IN  IF closing = {} THEN Len(code) + 1
        ELSE CHOOSE j \in closing : \A j2 \in closing : j <= j2

LineCount(code, d) == SpanEnd(code, d) - d

IssuesAt(issues, line) == Cardinality({k \in 1..Len(issues) : issues[k].line = line})

\* C13: with threshold T, FunctionLengthRule.evaluate gives one issue, at
\* the declaration line, for a function that spans T + 1 lines and none for
\* one that spans T lines; no function has more than one issue.  The two
\* counts are asked only of a function whose span ends with a line that is
\* not blank, so that blank lines after a body play no part.
C13_FunctionLengthBoundary ==
    Evaluated("FUNCTION_LENGTH") =>
        \A d \in DefLines(last_call.code) :
            LET n == IssuesAt(last_call.out.issues, d)
                ends_in_text == last_call.code[SpanEnd(last_call.code, d) - 1].toks /= <<>>
            IN  /\ (ends_in_text /\ LineCount(last_call.code, d) = last_call.threshold + 1) => n = 1
                /\ (ends_in_text /\ LineCount(last_call.code, d) = last_call.threshold) => n = 0
                /\ n <= 1

\* the branch lines of the function declared at line d: the lines up to the
\* next declaration that start with a branch keyword
BranchLines(code, d) ==
    {i \in (d + 1)..Len(code) :
        /\ \A j \in (d + 1)..i : j \notin DefLines(code)
        /\ \E k \in 1..Len(branch_keywords) : StartsWith(code[i].toks, branch_keywords[k])}

\* C15: ComplexityRule.evaluate gives, function by function, one issue at the
\* declaration line when the function has more than MAX_BRANCHES branch
\* lines and none otherwise; the last function is reported once.
C15_OneIssuePerComplexFunction ==
    Evaluated("COMPLEXITY") =>
        LET code   == last_call.code
            issues == last_call.out.issues
            over   == {d \in DefLines(code) : Cardinality(BranchLines(code, d)) > last_call.threshold}
        IN  /\ Len(issues) = Cardinality(over)
            /\ \A d \in over : IssuesAt(issues, d) = 1
            /\ \A k \in 1..Len(issues) :
                  /\ issues[k].message.num = Cardinality(BranchLines(code, issues[k].line))
                  /\ k > 1 => issues[k - 1].line < issues[k].line

\* tests/test_complexity_rule.py: 11 `if` lines, MAX_BRANCHES = 10, one issue
C15_Witness ==
    /\ Evaluated("COMPLEXITY")
    /\ last_call.threshold = MAX_BRANCHES
    /\ last_call.code = OneFunction(MAX_BRANCHES + 1, IfLine)
    /\ Len(last_call.out.issues) = 1
    /\ last_call.out.issues[1].line = 1

\* the positions of the lines with the stripped text of line i, when line i
\* is neither blank nor a comment
SameText(code, i) == {j \in 1..Len(code) : code[j].toks = code[i].toks}
Counted(code) == {i \in 1..Len(code) : code[i].toks /= <<>> /\ ~StartsWith(code[i].toks, "#")}

\* C17: DuplicateCodeRule.evaluate gives one issue for each distinct counted
\* text that occurs MIN_DUPLICATES times or more, at the line of its first
\* occurrence, and no other issue.
C17_OneIssuePerDuplicate ==
    Evaluated("DUPLICATE_CODE") =>
        LET code   == last_call.code
            issues == last_call.out.issues
            firsts == {i \in Counted(code) :
                          /\ \A j \in SameText(code, i) : i <= j
                          /\ Cardinality(SameText(code, i)) >= last_call.threshold}
        IN  /\ Len(issues) = Cardinality(firsts)
            /\ \A i \in firsts : IssuesAt(issues, i) = 1
            /\ \A k \in 1..Len(issues) :
                  issues[k].message.num = Cardinality(SameText(code, issues[k].line))

\* a text occurs exactly MIN_DUPLICATES times, first on line 2, and is
\* reported there; another text occurs less often and is not reported
C17_Witness ==
    /\ Evaluated("DUPLICATE_CODE")
    /\ last_call.threshold = MIN_DUPLICATES
    /\ Len(last_call.code) = 4
    /\ Cardinality(SameText(last_call.code, 2)) = MIN_DUPLICATES
    /\ 1 \in Counted(last_call.code) /\ 1 \notin SameText(last_call.code, 2)
    /\ Len(last_call.out.issues) = 1
    /\ last_call.out.issues[1].line = 2

\* a declaration with n body lines, followed by nothing, by blank lines, by
\* top-level text or by another function
QualityTails ==
    { <<>>, <<Ln(0, <<"x">>)>>, <<Ln(0, <<>>)>>, <<Ln(0, <<>>), Ln(0, <<"x">>)>>,
      <<Ln(0, <<"def ", "g", "(", ")", ":">>), Ln(4, DocLine)>> }

QualityTexts == {OneFunction(n, <<"x">>) \o tail : n \in 0..MaxBody, tail \in QualityTails}

\* QualityAnalyzer().analyze(file_path, content)
QualityCall ==
    /\ last_call.op = "none"
    /\ \E content \in QualityTexts :
          last_call' = [op |-> "quality", content |-> content, out |-> QualityAnalyze(content)]
    /\ UNCHANGED <<rule_attr, exceptRule>>

TooLongAt(issues, line) ==
    Cardinality({k \in 1..Len(issues) :
                    /\ issues[k].line = line
                    /\ issues[k].message.text = "Function too long, consider refactoring"})

\* C14: QualityAnalyzer reports "Function too long" for a function exactly
\* when endLine - headerLine exceeds MAX_FUNCTION_LINES, endLine being the
\* first later non-blank line indented no deeper than the declaration, or
\* the end of the file; it reports it once.
C14_TooLongExactly ==
    last_call.op = "quality" =>
        \A d \in DefLines(last_call.content) :
            TooLongAt(last_call.out.issues, d)
                = IF LineCount(last_call.content, d) > MAX_FUNCTION_LINES THEN 1 ELSE 0

MaxSecLines == 3   \* longest text fed to SecurityAnalyzer.analyze

SecurityLines ==
    { SecretLine, EnvLine, EvalLine, <<"x">>,
      <<"password =", "secret =", "x">>, <<"api_key =", "Config.", "x">> }

SecurityTexts == SeqsUpTo({Ln(0, toks) : toks \in SecurityLines}, MaxSecLines)

\* SecurityAnalyzer().analyze(file_path, content)
SecurityCall ==
    /\ last_call.op = "none"
    /\ \E content \in SecurityTexts :
          last_call' = [op |-> "security", content |-> content, out |-> SecurityAnalyze(content)]
    /\ UNCHANGED <<rule_attr, exceptRule>>

AnalyzerNext ==
    \/ PerformanceCall
    \/ QualityCall
    \/ SecurityCall

Elements(q) == {q[k] : k \in 1..Len(q)}

CredentialIssuesAt(issues, line) ==
    {k \in 1..Len(issues) :
        /\ issues[k].line = line
        /\ issues[k].message.text = "Potential hardcoded credential detected"}

RECURSIVE IssuesFrom(_, _)
IssuesFrom(k, code) ==
    IF k > Len(engine_rules) THEN <<>>
    ELSE LET rule == engine_rules[k]
             out  == Evaluate(rule, code, rule_attr)
         IN  (IF CfgOf(engine_config, rule).enabled = "false" THEN <<>>
              ELSE IF out.raised THEN <<RuleFailedSafely(rule, out.err)>>
              ELSE out.issues)
             \o IssuesFrom(k + 1, code)

\* C16: analyze returns the concatenation, in the order of the rule list, of
\* the issues of every rule that is not disabled; a rule without an entry in
\* the config is enabled, and a disabled rule is neither configured nor
\* evaluated.
C16_ConcatenationInRuleOrder ==
    ConfigWellFormed(engine_config, engine_rules) =>
        /\ \A n \in 1..Len(calls) :
              calls[n].findings = IssuesFrom(1, CodeSamples[calls[n].code])
        /\ \A rule \in ConfigurableRules :
              CfgOf(engine_config, rule).enabled = "false" => rule_attr[rule] = ClassDefault(rule)

\* tests/test_engine_intergration.py: NamingConvention then Docstring on
\* `def BadName():` / `pass` give 2 issues, the naming issue first
C16_Witness ==
    /\ engine_rules = <<"NAMING_CONVENTION", "DOCSTRING_MISSING">>
    /\ calls /= <<>>
    /\ CodeSamples[calls[1].code] = << Ln(0, <<"def ", "BadName", "(", ")", ":">>), Ln(4, Pass) >>
    /\ Len(calls[1].findings) = 2
    /\ calls[1].findings[1].rule = "NAMING_CONVENTION"
    /\ calls[1].findings[2].rule = "DOCSTRING_MISSING"
    /\ calls[1].findings[1].line = calls[1].findings[2].line

(***************************************************************************)
(* FolderTreeManager over a LocalFileSystemAdapter.                        *)
(*                                                                         *)
(* A path is the sequence of its components below the file-system root; a  *)
(* key of a structure is the sequence of the components it names, so the   *)
(* key "b/c" is <<"b", "c">> and base / key is base \o key.  A structure   *)
(* (a dict) is the sequence of its entries in insertion order.             *)
(***************************************************************************)
Entry(key, kind, items, text, val) ==
    [key |-> key, kind |-> kind, items |-> items, text |-> text, val |-> val]

Folder(key, items)  == Entry(key, "dict", items, "", 0)
FileOf(key, text)   == Entry(key, "str", <<>>, text, 0)
IntOf(key, val)     == Entry(key, "int", <<>>, "", val)

\* key.startswith("_"), for the names the structures below use
UnderscoreNames == {"_perms", "_meta"}

StartsWithUnderscore(key) == key /= <<>> /\ key[1] \in UnderscoreNames

\* len(name) of every name in use
NameLen(name) ==
    CASE name = "uploads" -> 7
      [] name = "f.txt"   -> 5
      [] name = "base"    -> 4
      [] OTHER            -> 1

RECURSIVE StrLen(_)
\* len(str(p)): every component follows a separator
StrLen(p) == IF p = <<>> THEN 0 ELSE 1 + NameLen(Head(p)) + StrLen(Tail(p))

Parent(p) == SubSeq(p, 1, Len(p) - 1)

\* the path itself and every directory above it
Prefixes(p) == {SubSeq(p, 1, k) : k \in 1..Len(p)}

IsUnder(p, d) == Len(p) > Len(d) /\ SubSeq(p, 1, Len(d)) = d

(***************************************************************************)
(* The storage behind the adapter: the directories, the files with their  *)
(* content, and the modes set by chmod.                                    *)
(***************************************************************************)
IsDir(st, p)  == p \in st.dirs
IsFile(st, p) == \E f \in st.files : f.path = p
Exists(st, p) == IsDir(st, p) \/ IsFile(st, p)

\* the state a call threads through its adapter operations
Run(st) == [storage |-> st, ops |-> <<>>, raised |-> FALSE]

Logged(run, op, p) == [run EXCEPT !.ops = Append(@, [op |-> op, path |-> p])]

Raise(run) == [run EXCEPT !.raised = TRUE]

\* Path.mkdir(parents=True, exist_ok=True): fails on a file in the way
MkdirFails(st, p) == \E q \in Prefixes(p) : IsFile(st, q)

MkdirAll(st, p) == [st EXCEPT !.dirs = @ \union Prefixes(p)]

mkdir(run, p) ==
    IF run.raised THEN run
    ELSE IF MkdirFails(run.storage, p) THEN Raise(Logged(run, "mkdir", p))
    ELSE [Logged(run, "mkdir", p) EXCEPT !.storage = MkdirAll(@, p)]

chmod(run, p, mode) ==
    IF run.raised THEN run
    ELSE IF ~Exists(run.storage, p) THEN Raise(Logged(run, "chmod", p))
    ELSE [Logged(run, "chmod", p) EXCEPT
            !.storage.modes = {m \in @ : m.path /= p} \union {[path |-> p, mode |-> mode]}]

exists(run, p) == IF run.raised THEN run ELSE Logged(run, "exists", p)

write_file(run, p, content, overwrite) ==
    IF run.raised THEN run
    ELSE IF Exists(run.storage, p) /\ ~overwrite THEN Logged(run, "write_file", p)
    ELSE IF MkdirFails(run.storage, Parent(p)) \/ IsDir(run.storage, p)
         THEN Raise(Logged(run, "write_file", p))
    ELSE [Logged(run, "write_file", p) EXCEPT
            !.storage = [MkdirAll(@, Parent(p)) EXCEPT
                !.files = {f \in @ : f.path /= p}
                              \union {[path |-> p, content |-> content]}]]

\* Path.rmdir refuses a directory that is not empty
RmdirFails(st, p) ==
    \/ \E d \in st.dirs : IsUnder(d, p)
    \/ \E f \in st.files : IsUnder(f.path, p)

Unlink(st, p) == [st EXCEPT !.files = {f \in @ : f.path /= p}]

Rmdir(st, p) ==
    [st EXCEPT !.dirs = @ \ {p}, !.modes = {m \in @ : m.path /= p}]

RmdirIfEmpty(st, p) == IF RmdirFails(st, p) THEN st ELSE Rmdir(st, p)

\* the exception of a failed removal is caught and logged by the caller
remove(run, p) ==
    IF IsFile(run.storage, p)
    THEN [Logged(run, "remove", p) EXCEPT !.storage = Unlink(@, p)]
    ELSE IF IsDir(run.storage, p)
    THEN [Logged(run, "remove", p) EXCEPT !.storage = RmdirIfEmpty(@, p)]
    ELSE Logged(run, "remove", p)

(***************************************************************************)
(* create_folder_tree                                                      *)
(***************************************************************************)
HasPerms(item) ==
    \E k \in 1..Len(item.items) :
        item.items[k].key = <<"_perms">> /\ item.items[k].kind = "int"

PermsOf(item) ==
    LET k == CHOOSE k \in 1..Len(item.items) : item.items[k].key = <<"_perms">>
    IN  item.items[k].val

Content(item) ==
    IF item.kind = "str" /\ item.text \notin {"file", ""} THEN item.text ELSE ""

\* the branch of one entry that is not a dry run
MakeItem(run, path, item, overwrite) ==
    IF item.kind = "dict"
    THEN LET made == mkdir(run, path)
         IN  IF HasPerms(item) THEN chmod(made, path, PermsOf(item)) ELSE made
    ELSE LET made == exists(mkdir(run, Parent(path)), path)
         IN  IF ~Exists(made.storage, path) \/ overwrite
             THEN write_file(made, path, Content(item), overwrite)
             ELSE made

MakeAnyway(run, path, item, overwrite, dry_run) == MakeItem(run, path, item, overwrite)

CreateItem(run, path, item, overwrite, dry_run) ==
    IF dry_run THEN run ELSE MakeItem(run, path, item, overwrite)

MakeBase(run, base, dry_run) == IF dry_run THEN run ELSE mkdir(run, base)

RECURSIVE CreateFolderTree(_, _, _, _, _)
RECURSIVE CreateItems(_, _, _, _, _, _)
\* the loop over structure.items() from entry k on; an exception ends the call
CreateItems(run, base, items, k, overwrite, dry_run) ==
    IF k > Len(items) \/ run.raised THEN run
    ELSE IF StartsWithUnderscore(items[k].key)
    THEN CreateItems(run, base, items, k + 1, overwrite, dry_run)
    ELSE LET current_path == base \o items[k].key
             made == CreateItem(run, current_path, items[k], overwrite, dry_run)
             sub  == IF items[k].kind = "dict"
                     THEN CreateFolderTree(made, current_path, items[k].items,
                                           overwrite, dry_run)
                     ELSE made
         IN  CreateItems(sub, base, items, k + 1, overwrite, dry_run)

CreateFolderTree(run, base, structure, overwrite, dry_run) ==
    CreateItems(MakeBase(run, base, dry_run), base, structure, 1, overwrite, dry_run)

(***************************************************************************)
(* cleanup_folder_tree                                                     *)
(***************************************************************************)
RECURSIVE Collect(_, _, _)
\* _collect: every named path, a folder before what it holds
Collect(current_base, sub_struct, k) ==
    IF k > Len(sub_struct) THEN <<>>
    ELSE IF StartsWithUnderscore(sub_struct[k].key)
    THEN Collect(current_base, sub_struct, k + 1)
    ELSE LET p == current_base \o sub_struct[k].key
         IN  <<p>>
             \o (IF sub_struct[k].kind = "dict"
                 THEN Collect(p, sub_struct[k].items, 1) ELSE <<>>)
             \o Collect(current_base, sub_struct, k + 1)

\* p goes behind every path that is at least as long: the sort is stable
InsertByLen(sorted, p) ==
    LET n == Cardinality({i \in 1..Len(sorted) : StrLen(sorted[i]) >= StrLen(p)})
    IN  SubSeq(sorted, 1, n) \o <<p>> \o SubSeq(sorted, n + 1, Len(sorted))

RECURSIVE SortByLen(_)
\* paths.sort(key=lambda p: len(str(p)), reverse=True)
SortByLen(paths) ==
    IF paths = <<>> THEN <<>>
    ELSE InsertByLen(SortByLen(SubSeq(paths, 1, Len(paths) - 1)), paths[Len(paths)])

RECURSIVE RemoveAll(_, _, _)
RemoveAll(run, paths, k) ==
    IF k > Len(paths) THEN run
    ELSE LET asked == exists(run, paths[k])
         IN  RemoveAll(IF Exists(run.storage, paths[k]) THEN remove(asked, paths[k])
                       ELSE asked,
                       paths, k + 1)

CleanupFolderTree(run, base, structure, confirm) ==
    IF ~confirm THEN run
    ELSE RemoveAll(run, SortByLen(Collect(base, structure, 1)), 1)

(***************************************************************************)
(* The calls: one create_folder_tree, then one cleanup_folder_tree, on a   *)
(* base directory that is missing, empty or holds a file.                  *)
(***************************************************************************)
Base == <<"base">>

NoStorage    == [dirs |-> {}, files |-> {}, modes |-> {}]
EmptyBase    == [dirs |-> {Base}, files |-> {}, modes |-> {}]
BaseWithFile ==
    [dirs |-> {Base}, files |-> {[path |-> Base \o <<"c">>, content |-> "old"]},
     modes |-> {}]

Storages == {NoStorage, EmptyBase, BaseWithFile}

Structures ==
    { <<>>,
      << Folder(<<"a">>, << Folder(<<"b">>, <<>>), FileOf(<<"f.txt">>, "x") >>),
         FileOf(<<"c">>, "file") >>,
      << Folder(<<"uploads">>, <<>>),
         Folder(<<"a">>, << Folder(<<"b">>, << FileOf(<<"c">>, "") >>) >>) >>,
      << Folder(<<"a">>, << IntOf(<<"_perms">>, 448),
                            Folder(<<"_meta">>, << Folder(<<"b">>, <<>>) >>),
                            Folder(<<"b">>, << IntOf(<<"_perms">>, 493) >>) >>) >>,
      << Folder(<<"a">>, << FileOf(<<"_perms">>, "755"), FileOf(<<"f.txt">>, "x") >>) >>,
      << Folder(<<"a">>, << Folder(<<"b", "c">>, <<>>) >>) >>,
      << Folder(<<"a">>, <<>>), FileOf(<<"a", "b", "c">>, "x") >>,
      << FileOf(<<"c">>, "new") >>,
      << Folder(<<"c">>, << Folder(<<"b">>, <<>>) >>) >> }

NoTreeCall == [op |-> "none"]

TreeIdle ==
    /\ storage = NoStorage
    /\ tree_call = NoTreeCall

TreeInit ==
    /\ storage \in Storages
    /\ tree_call = NoTreeCall

\* manager.create_folder_tree(base, structure, overwrite, dry_run)
CreateTree ==
    /\ tree_call.op = "none"
    /\ \E structure \in Structures, overwrite \in BOOLEAN, dry_run \in BOOLEAN :
         LET run == CreateFolderTree(Run(storage), Base, structure, overwrite, dry_run)
         IN  /\ storage' = run.storage
             /\ tree_call' = [op |-> "create", structure |-> structure,
                              overwrite |-> overwrite, dry_run |-> dry_run,
                              before |-> storage, ops |-> run.ops,
                              raised |-> run.raised]
    /\ UNCHANGED exceptTree

\* manager.cleanup_folder_tree(base, structure, confirm)
CleanupTree ==
    /\ tree_call.op \in {"none", "create"}
    /\ \E structure \in Structures, confirm \in BOOLEAN :
         LET run == CleanupFolderTree(Run(storage), Base, structure, confirm)
         IN  /\ storage' = run.storage
             /\ tree_call' = [op |-> "cleanup", structure |-> structure,
                              confirm |-> confirm, before |-> storage,
                              ops |-> run.ops, raised |-> run.raised,
                              prev |-> tree_call]
    /\ UNCHANGED exceptTree

TreeNext == CreateTree \/ CleanupTree

StateChanging == {"mkdir", "write_file", "chmod", "remove"}

\* C19: a create_folder_tree call with dry_run = True makes no mkdir,
\* write_file or chmod call on the adapter, whatever the depth of the
\* structure, and leaves the storage as it found it.
C19_DryRunChangesNothing ==
    (tree_call.op = "create" /\ tree_call.dry_run) =>
        /\ \A k \in 1..Len(tree_call.ops) : tree_call.ops[k].op \notin StateChanging
        /\ storage = tree_call.before

\* a dry run of a structure with a folder in a folder, a file and a _perms
\* entry, on a base directory that does not exist yet
C19_Witness ==
    /\ tree_call.op = "create"
    /\ tree_call.dry_run
    /\ tree_call.before = NoStorage
    /\ \E k \in 1..Len(tree_call.structure) :
         LET item == tree_call.structure[k]
         IN  /\ item.kind = "dict"
             /\ HasPerms(item)
             /\ \E j \in 1..Len(item.items) :
                  /\ item.items[j].kind = "dict"
                  /\ ~StartsWithUnderscore(item.items[j].key)
                  /\ HasPerms(item.items[j])

\* a create on an empty base that returned, then a confirmed cleanup of the
\* same structure
CreatedThenCleaned ==
    /\ tree_call.op = "cleanup"
    /\ tree_call.confirm
    /\ tree_call.prev.op = "create"
    /\ ~tree_call.prev.dry_run
    /\ ~tree_call.prev.raised
    /\ tree_call.prev.before = EmptyBase
    /\ tree_call.prev.structure = tree_call.structure

\* C20: after create_folder_tree(base, S) on an empty base directory and
\* cleanup_folder_tree(base, S, confirm=True), no path that S names exists.
C20_CleanupRemovesAllNamed ==
    CreatedThenCleaned =>
        \A p \in Elements(Collect(Base, tree_call.structure, 1)) : ~Exists(storage, p)

(***************************************************************************)
(* The scan of PerformanceAnalyzer line by line: what the loop holds after *)
(* each line of the text of a call, and which lines reach the loop check.  *)
(***************************************************************************)
\* the locals of analyze after the first i lines
ScanAfter(content, i) == PerformanceScan(SubSeq(content, 1, i), 1, PerformanceStart)

\* line i reaches the indentation and loop logic of the scan
CodeLine(content, i) ==
    /\ content[i].toks /= <<>>
    /\ ~ScanAfter(content, i - 1).in_string_block
    /\ Count(content[i].toks, TQD) % 2 = 0
    /\ Count(content[i].toks, TQS) % 2 = 0
    /\ ~StartsWith(content[i].toks, "#")

\* a Code line that opens a loop
LoopLine(content, i) ==
    /\ CodeLine(content, i)
    /\ StartsWith(UpTo(content[i].toks, "#"), "for ")
    /\ EndsWith(UpTo(content[i].toks, "#"), ":")

\* an earlier loop of smaller indentation that no Code line in between closes
OpenLoopAbove(content, j) ==
    \E i \in 1..(j - 1) :
        /\ LoopLine(content, i)
        /\ content[i].ind < content[j].ind
        /\ \A k \in (i + 1)..(j - 1) :
              CodeLine(content, k) => content[k].ind > content[i].ind

\* C21: a `for` line is flagged as nested exactly when an earlier `for` line
\* has a strictly smaller indentation and no Code line between the two has an
\* indentation at most that of the earlier loop; nothing else is flagged, so
\* two sibling loops at one indentation are never flagged.
C21_NestedExactly ==
    last_call.op = "performance" =>
        \A j \in 1..Len(last_call.content) :
            IssuesAt(last_call.out.issues, j) > 0
                <=> (LoopLine(last_call.content, j) /\ OpenLoopAbove(last_call.content, j))

\* line i takes the scan from code into a block
OpensBlock(content, i) ==
    /\ ~ScanAfter(content, i - 1).in_string_block
    /\ ScanAfter(content, i).in_string_block

\* the first line after i that holds an odd number of delimiter d, or one
\* past the end of the text
FirstOdd(content, i, d) ==
    LET odd == {k \in (i + 1)..Len(content) : Count(content[k].toks, d) % 2 = 1}
    IN  IF odd = {} THEN Len(content) + 1
        ELSE CHOOSE k \in odd : \A m \in odd : k <= m

OtherDelimiter(d) == IF d = TQD THEN TQS ELSE TQD

\* C22: a block opened by one delimiter stays open over every later line up
\* to the first that holds an odd number of that delimiter, whatever these
\* lines hold of the other delimiter, and is closed after that line.
C22_ClosesOnOwnDelimiter ==
    last_call.op = "performance" =>
        \A i \in 1..Len(last_call.content) :
            OpensBlock(last_call.content, i) =>
                LET d     == ScanAfter(last_call.content, i).string_delimiter
                    close == FirstOdd(last_call.content, i, d)
                IN  /\ \A j \in (i + 1)..(close - 1) :
                          /\ ScanAfter(last_call.content, j).in_string_block
                          /\ ScanAfter(last_call.content, j).string_delimiter = d
                    /\ close <= Len(last_call.content) =>
                          ~ScanAfter(last_call.content, close).in_string_block

\* a block that a line with the other delimiter does not close and a later
\* line with its own delimiter does
C22_Witness ==
    /\ last_call.op = "performance"
    /\ \E i, j, k \in 1..Len(last_call.content) :
          /\ i < j /\ j < k
          /\ OpensBlock(last_call.content, i)
          /\ LET d == ScanAfter(last_call.content, i).string_delimiter
             IN  /\ Count(last_call.content[j].toks, OtherDelimiter(d)) % 2 = 1
                 /\ Count(last_call.content[j].toks, d) = 0
                 /\ FirstOdd(last_call.content, i, d) = k
          /\ ScanAfter(last_call.content, j).in_string_block
          /\ ~ScanAfter(last_call.content, k).in_string_block

\* line i, met in code, holds an even number, not zero, of a delimiter: a
\* triple-quoted string that opens and closes on the line
OneLineString(content, i) ==
    /\ ~ScanAfter(content, i - 1).in_string_block
    /\ Count(content[i].toks, TQD) % 2 = 0
    /\ Count(content[i].toks, TQS) % 2 = 0
    /\ Count(content[i].toks, TQD) + Count(content[i].toks, TQS) > 0

\* line i leaves the loop stack and the lexical state of the scan alone
LeavesScanAlone(content, i) ==
    /\ ScanAfter(content, i).loop_stack = ScanAfter(content, i - 1).loop_stack
    /\ ScanAfter(content, i).in_string_block = ScanAfter(content, i - 1).in_string_block

\* C23: a line that opens and closes a one-line triple-quoted string is not
\* code to the scan: no issue is reported at it, and the loop stack and the
\* lexical state after it are those before it.
C23_OneLineStringIsNotCode ==
    last_call.op = "performance" =>
        \A i \in 1..Len(last_call.content) :
            OneLineString(last_call.content, i) =>
                /\ IssuesAt(last_call.out.issues, i) = 0
                /\ LeavesScanAlone(last_call.content, i)

\* C24: a line whose stripped text starts with # gives no issue and leaves
\* the loop stack and the lexical state as they were before the line.
C24_CommentLineExcluded ==
    last_call.op = "performance" =>
        \A i \in 1..Len(last_call.content) :
            StartsWith(last_call.content[i].toks, "#") =>
                /\ IssuesAt(last_call.out.issues, i) = 0
                /\ LeavesScanAlone(last_call.content, i)

\* the loops open after line i: the `for` lines up to i that no later Code
\* line up to i, of an indentation at most theirs, has closed
OpenLoops(content, i) ==
    {k \in 1..i :
        /\ LoopLine(content, k)
        /\ \A m \in (k + 1)..i : CodeLine(content, m) => content[m].ind > content[k].ind}

\* C29: after every line the loop stack is strictly increasing from bottom
\* to top, and its entries are the indentations of the `for` lines that no
\* later Code line has closed.
C29_LoopStackInvariant ==
    last_call.op = "performance" =>
        \A i \in 0..Len(last_call.content) :
            LET stack == ScanAfter(last_call.content, i).loop_stack
            IN  /\ \A a, b \in 1..Len(stack) : a < b => stack[a] < stack[b]
                /\ Elements(stack) = {last_call.content[k].ind : k \in OpenLoops(last_call.content, i)}

\* the blank lines of the function declared at line d that body text follows
BlanksInBody(code, d) ==
    {b \in (d + 1)..(SpanEnd(code, d) - 1) :
        /\ code[b].toks = <<>>
        /\ \E j \in (b + 1)..(SpanEnd(code, d) - 1) :
              code[j].toks /= <<>> /\ code[j].ind > code[d].ind}

\* C25: a blank line inside a function body does not close the span: the
\* body lines after it still count, so a function with such a blank line
\* whose span is longer than the threshold is reported.
C25_BlankLineKeepsSpanOpen ==
    Evaluated("FUNCTION_LENGTH") =>
        \A d \in DefLines(last_call.code) :
            (/\ BlanksInBody(last_call.code, d) /= {}
             /\ last_call.code[SpanEnd(last_call.code, d) - 1].toks /= <<>>
             /\ LineCount(last_call.code, d) > last_call.threshold)
                => IssuesAt(last_call.out.issues, d) = 1

\* the branch lines inside the span of the function declared at line d
BranchLinesInside(code, d) ==
    {i \in BranchLines(code, d) : i < SpanEnd(code, d)}

\* C26: a branch line after the body of a function, at an indentation at
\* most that of the declaration, is not counted toward the function: the
\* count reported is that of the branch lines inside the span, and a
\* function with no more than MAX_BRANCHES of these is not reported.
C26_BranchesInsideFunctionOnly ==
    Evaluated("COMPLEXITY") =>
        LET code   == last_call.code
            issues == last_call.out.issues
        IN  /\ \A k \in 1..Len(issues) :
                  issues[k].message.num = Cardinality(BranchLinesInside(code, issues[k].line))
            /\ \A d \in DefLines(code) :
                  Cardinality(BranchLinesInside(code, d)) <= last_call.threshold
                      => IssuesAt(issues, d) = 0

\* what the declaration line holds between its first "(" and its last ")"
OutermostParams(stripped) ==
    SubSeq(stripped, FirstIndex(stripped, "(") + 1, LastIndex(stripped, ")") - 1)

\* the commas + 1 of the outermost parenthesis pair, 0 for an empty pair
CommaCount(stripped) ==
    IF OutermostParams(stripped) = <<>> THEN 0
    ELSE Count(OutermostParams(stripped), ",") + 1

\* C28: ParameterCountRule.evaluate flags a declaration exactly when the
\* commas + 1 between the first "(" and the last ")" of its line exceed
\* MAX_PARAMS, also when a default value holds parentheses, and reports
\* that count.
C28_CommasInOutermostParens ==
    Evaluated("PARAMETER_COUNT") =>
        /\ ~last_call.out.raised
        /\ \A d \in DefLines(last_call.code) :
              LET count == CommaCount(last_call.code[d].toks)
              IN  /\ IssuesAt(last_call.out.issues, d) = (IF count > last_call.threshold THEN 1 ELSE 0)
                  /\ \A k \in 1..Len(last_call.out.issues) :
                        last_call.out.issues[k].line = d
                            => last_call.out.issues[k].message.num = count

\* the path ends in .py, whatever the case of its letters
EndsInPy(path) == path[2] \in {".py", ".PY"}

\* C27: in a report of analyze_project for a file that can be read, the
\* security issues are always there; a path that does not end in .py, in
\* any case, gets nothing else, so all its issues have type security; a
\* path that ends in .py gets the quality and the performance issues after
\* them when the quality analyzer returns.
C27_DeepChecksByExtension ==
    batch.op = "analyze_project" =>
        \A k \in 1..Len(batch.reports) :
            LET file     == FileSamples[batch.paths[k]]
                issues   == batch.reports[k].issues
                security == SecurityAnalyze(file.content).issues
                quality  == QualityAnalyze(file.content)
            IN  file.readable =>
                    /\ SubSeq(issues, 1, Len(security)) = security
                    /\ ~EndsInPy(file.path) =>
                          /\ issues = security
                          /\ \A i \in 1..Len(issues) : issues[i].type = "security"
                    /\ (EndsInPy(file.path) /\ ~quality.raised) =>
                          issues = security \o quality.issues
                                       \o PerformanceAnalyze(file.content).issues

\* one call on a .js file that holds a nested loop and a risky call, and on
\* a .PY file whose report holds a quality issue
C27_Witness ==
    /\ batch.op = "analyze_project"
    /\ \E k \in 1..Len(batch.reports) :
          LET file == FileSamples[batch.paths[k]]
          IN  /\ file.path[2] = ".js"
              /\ PerformanceAnalyze(file.content).issues /= <<>>
              /\ batch.reports[k].issues /= <<>>
    /\ \E k \in 1..Len(batch.reports) :
          /\ FileSamples[batch.paths[k]].path[2] = ".PY"
          /\ IssuesOfType(batch.reports[k].issues, "quality") /= <<>>

\* how many issues of a report list are counted under a key: a known type
\* under itself, any other type under "other"
RECURSIVE IssuesUnder(_, _)
IssuesUnder(results, key) ==
    IF results = <<>> THEN 0
    ELSE LET issues == ResultIssues(Head(results))
             known  == {"quality", "security", "performance"}
         IN  Cardinality({i \in 1..Len(issues) :
                            IF key = "other" THEN IssueType(issues[i]) \notin known
                            ELSE IssueType(issues[i]) = key})
             + IssuesUnder(Tail(results), key)

RECURSIVE SumOver(_, _)
\* the sum of the values of a dict over a set of its keys
SumOver(d, keys) ==
    IF keys = {} THEN 0
    ELSE LET k == CHOOSE k \in keys : TRUE
         IN  d[k] + SumOver(d, keys \ {k})

\* C30: total_issues is the sum of the counts of issue_breakdown, and every
\* issue is counted under one key: its type when that is quality, security
\* or performance, "other" for any other type.
C30_BreakdownSumsToTotal ==
    project_result.called =>
        LET breakdown == project_result.issue_breakdown
        IN  /\ project_result.total_issues = SumOver(breakdown, DOMAIN breakdown)
            /\ DOMAIN breakdown \subseteq Elements(BreakdownKeys)
            /\ \A k \in DOMAIN breakdown : breakdown[k] = IssuesUnder(analysis_results, k)
            /\ "other" \notin DOMAIN breakdown => IssuesUnder(analysis_results, "other") = 0

\* unknown types in two files, next to a type in upper case and an issue
\* without a type
C30_Witness ==
    /\ project_result.called
    /\ Len(analysis_results) >= 2
    /\ "other" \in DOMAIN project_result.issue_breakdown
    /\ project_result.issue_breakdown["other"] >= 3
    /\ project_result.issue_breakdown["security"] >= 1
    /\ project_result.issue_breakdown["quality"] >= 2
    /\ \E i, j \in 1..Len(analysis_results) :
          /\ i /= j
          /\ IssuesUnder(<<analysis_results[i]>>, "other") > 0
          /\ IssuesUnder(<<analysis_results[j]>>, "other") > 0

(***************************************************************************)
(* The specifications.  Every component starts in its state after          *)
(* construction; a specification runs the operations of one component and  *)
(* builds a RuleEngine only when it is about one.                          *)
(***************************************************************************)
Init ==
    /\ ScoreInit
    /\ ProjectInit
    /\ EngineIdle
    /\ RuleInit
    /\ BatchIdle
    /\ ConcInit
    /\ TreeIdle

InitEngine ==
    /\ ScoreInit
    /\ ProjectInit
    /\ EngineInit
    /\ RuleInit
    /\ BatchIdle
    /\ ConcInit
    /\ TreeIdle

InitConc ==
    /\ ScoreInit
    /\ ProjectInit
    /\ ConcEngineInit
    /\ RuleInit
    /\ BatchIdle
    /\ ConcInit
    /\ TreeIdle

InitBatch ==
    /\ ScoreInit
    /\ ProjectInit
    /\ EngineIdle
    /\ RuleInit
    /\ BatchInit
    /\ ConcInit
    /\ TreeIdle

InitTree ==
    /\ ScoreInit
    /\ ProjectInit
    /\ EngineIdle
    /\ RuleInit
    /\ BatchIdle
    /\ ConcInit
    /\ TreeInit

SpecScore   == Init /\ [][ScoreNext]_vars
SpecProject == Init /\ [][ProjectNext]_vars
SpecEngine  == InitEngine /\ [][EngineNext]_vars
SpecRule    == Init /\ [][RuleNext]_vars
SpecBatch   == InitBatch /\ [][BatchNext]_vars
SpecConc    == InitConc /\ [][ConcNext]_vars
SpecAnalyzer == Init /\ [][AnalyzerNext]_vars
SpecRuleText == Init /\ [][RuleTextNext]_vars
SpecTree     == InitTree /\ [][TreeNext]_vars

====
